---- MODULE Spec2Model ----
(***************************************************************************)
(* Gemini Desk backend: the CLI executor (services/cliExecutor.ts), the    *)
(* session manager over the SQLite data access layer                       *)
(* (services/sessionManager.ts, database/dal.ts, database/schema.sql,      *)
(* database/database.ts) and the project manager                           *)
(* (services/projectManager.ts, routes/projects.ts).                       *)
(*                                                                         *)
(* A JavaScript string is a sequence of one-character strings, so that     *)
(* String.replace and String.split are computed character by character.    *)
(* Each subsystem has its own specification (SpecExec, SpecInput,          *)
(* SpecSession, SpecStore, SpecProject, ...); the variables of the other   *)
(* subsystems stay at their initial values.                                *)
(***************************************************************************)
EXTENDS Integers, Sequences, FiniteSets, TLC

VARIABLES
    calls,            \* executor: one record per executeCommand call, in call order
    activeProcesses,  \* executor: Map<sessionId, ChildProcess> (0: no entry)
    inbox,            \* executor: the request body waiting to be handled (SpecInput)
    kret,             \* executor: the last killProcess call and what it returned
    sessions,         \* session manager: Map<id, ChatSession>, the cache
    chat_sessions,    \* store: rows of table chat_sessions, in rowid order
    messages,         \* store: rows of table messages, in rowid order
    code_blocks,      \* store: rows of table code_blocks, in rowid order
    now,              \* the clock read by new Date() and CURRENT_TIMESTAMP
    nextId,           \* the number of identifiers uuidv4() has handed out
    ret,              \* session manager / store: what the last call returned
    created,          \* history: id -> the messages createSession was given
    projects,         \* project manager: the <id>.json documents on disk, by id
    recentProjects,   \* project manager: the recency list
    currentProjectId, \* project manager: the selected project (NULL for null)
    generated,        \* project manager: the number of ids generateProjectId has made
    fs,               \* the file system: path -> "dir" | "file" | "missing" | "unreadable"
    pret,             \* project manager: what the last call returned
    doc,              \* chat store: the pieces of the text the CLI answered with
    extraction,       \* chat store: what the extraction of the text returned
    inflight,         \* the requests that are between two awaits, and where each of them is
    snapshot          \* store: <<the tables at BEGIN>> while a transaction is open on the connection

execVars == <<calls, activeProcesses, inbox, kret>>
sessionVars == <<sessions, chat_sessions, messages, code_blocks, now, nextId, ret, created>>
projectVars == <<projects, recentProjects, currentProjectId, generated, fs, pret>>
chatVars == <<doc, extraction>>
asyncVars == <<inflight, snapshot>>
vars == <<execVars, sessionVars, projectVars, chatVars, asyncVars>>

(***************************************************************************)
(* Bounds of the model.                                                    *)
(***************************************************************************)
MaxCalls == 2
MaxStrLen == 2
MaxIds == 2
MaxTime == 2
MaxProjects == 2
MaxItems == 2
MaxCreated == 3

(***************************************************************************)
(* Strings.                                                                *)
(***************************************************************************)
\* The character class of the regular expression in sanitizeCommand and
\* sanitizeArguments: twelve characters (the last two are the backtick and the
\* backslash, written by name).
MetaChars == {";", "&", "|", "$", "(", ")", "{", "}", "[", "]", "BACKTICK", "BACKSLASH"}

\* String.prototype.replace(/[class]/, ''): without the g flag only the first
\* match is removed.
RECURSIVE replaceFirst(_, _)
replaceFirst(s, class) ==
    IF s = <<>> THEN <<>>
    ELSE IF Head(s) \in class THEN Tail(s)
    ELSE <<Head(s)>> \o replaceFirst(Tail(s), class)

\* String.prototype.replace(/[class]/g, ''): every match is removed, scanning
\* from the left.
RECURSIVE replaceAll(_, _)
replaceAll(s, class) ==
    IF s = <<>> THEN <<>>
    ELSE IF Head(s) \in class THEN replaceAll(Tail(s), class)
    ELSE <<Head(s)>> \o replaceAll(Tail(s), class)

\* String.prototype.split(' ')[0]: the text before the first space.
RECURSIVE splitFirst(_)
splitFirst(s) ==
    IF s = <<>> THEN <<>>
    ELSE IF Head(s) = " " THEN <<>>
    ELSE <<Head(s)>> \o splitFirst(Tail(s))

(***************************************************************************)
(* CLI executor (services/cliExecutor.ts).                                 *)
(***************************************************************************)

\* CLIExecutionOptions of the executor under analysis: the allow-list holds the
\* one-letter command g (standing for 'gemini'), the output limit is small.
allowedCommands == {<<"g">>}
maxOutputSize == 1
defaultTimeout == 3

\* The error codes of CLIExecutionError, and the two results of a resolved call.
ErrorCodes ==
    {"INVALID_COMMAND", "INVALID_ARGS", "INVALID_WORKING_DIR", "INVALID_SESSION_ID",
     "INVALID_TIMEOUT", "COMMAND_NOT_ALLOWED", "WORKING_DIR_ACCESS_ERROR",
     "TIMEOUT", "OUTPUT_TOO_LARGE", "COMMAND_NOT_FOUND", "PROCESS_ERROR"}

\* A CLIExecutionRequest.  A missing (undefined) or empty string field is the
\* empty string; args that are not an array have argsIsArray = FALSE; a missing
\* timeout has timeoutGiven = FALSE.
NewRequest(command, argsIsArray, args, workingDirectory, sessionId, timeoutGiven, timeout) ==
    [command |-> command, argsIsArray |-> argsIsArray, args |-> args,
     workingDirectory |-> workingDirectory, sessionId |-> sessionId,
     timeoutGiven |-> timeoutGiven, timeout |-> timeout]

\* validateRequest with the timeout tested for truthiness before its sign, so
\* that a timeout of 0 passes as if it were missing.
validateRequestTruthyTimeout(request) ==
    IF request.command = <<>> THEN "INVALID_COMMAND"
    ELSE IF ~request.argsIsArray THEN "INVALID_ARGS"
    ELSE IF request.workingDirectory = "" THEN "INVALID_WORKING_DIR"
    ELSE IF request.sessionId = "" THEN "INVALID_SESSION_ID"
    ELSE IF request.timeoutGiven /\ request.timeout # 0 /\ request.timeout <= 0
    THEN "INVALID_TIMEOUT"
    ELSE "OK"

\* validateRequest: the code of the first check that fails, "OK" if none does.
validateRequest(request) ==
    IF request.command = <<>> THEN "INVALID_COMMAND"
    ELSE IF ~request.argsIsArray THEN "INVALID_ARGS"
    ELSE IF request.workingDirectory = "" THEN "INVALID_WORKING_DIR"
    ELSE IF request.sessionId = "" THEN "INVALID_SESSION_ID"
    ELSE IF request.timeoutGiven /\ request.timeout <= 0 THEN "INVALID_TIMEOUT"
    ELSE "OK"

\* sanitizeCommand with the allow-list test on a prefix of the command instead
\* of on its first token.
sanitizeCommandPrefix(command) ==
    LET sanitized == replaceAll(command, MetaChars)
        allowed == \E a \in allowedCommands :
                       /\ Len(a) <= Len(sanitized)
                       /\ SubSeq(sanitized, 1, Len(a)) = a
    IN  [ok |-> allowed, value |-> sanitized]

\* sanitizeCommand: strips the metacharacters, then throws COMMAND_NOT_ALLOWED
\* (ok = FALSE) unless the first space-delimited token is in the allow-list.
sanitizeCommand(command) ==
    LET sanitized == replaceAll(command, MetaChars)
        baseCommand == splitFirst(sanitized)
    IN  [ok |-> baseCommand \in allowedCommands, value |-> sanitized]

\* sanitizeArguments with a regular expression that lacks the g flag.
sanitizeArgumentsFirstOnly(args) ==
    [k \in 1..Len(args) |-> replaceFirst(args[k], MetaChars)]

\* sanitizeArguments: args.map(arg => arg.replace(/[...]/g, '')).
sanitizeArguments(args) ==
    [k \in 1..Len(args) |-> replaceAll(args[k], MetaChars)]

\* validateWorkingDirectory: fs.stat, isDirectory, fs.access(R_OK).
validateWorkingDirectory(workingDir) ==
    IF fs[workingDir] = "missing" THEN "WORKING_DIR_ACCESS_ERROR"
    ELSE IF fs[workingDir] = "file" THEN "INVALID_WORKING_DIR"
    ELSE IF fs[workingDir] = "unreadable" THEN "WORKING_DIR_ACCESS_ERROR"
    ELSE "OK"

\* The record of a call that returned without spawning a child.
RejectedCall(request, code) ==
    [request |-> request, spawned |-> FALSE, command |-> <<>>, args |-> <<>>,
     timeout |-> 0, proc |-> "none", killed |-> FALSE, timer |-> "none",
     outputSize |-> 0, promise |-> "rejected", returned |-> TRUE,
     success |-> FALSE, error |-> code, exitCode |-> 0, signalCode |-> "",
     threw |-> FALSE]

\* The record of a call whose child has just been spawned (spawnProcess up to
\* the registration of the handlers).
SpawnedCall(request, command, args) ==
    [request |-> request, spawned |-> TRUE, command |-> command, args |-> args,
     timeout |-> IF request.timeoutGiven /\ request.timeout # 0
                 THEN request.timeout ELSE defaultTimeout,
     proc |-> "running", killed |-> FALSE, timer |-> "armed",
     outputSize |-> 0, promise |-> "pending", returned |-> FALSE,
     success |-> FALSE, error |-> "", exitCode |-> 0, signalCode |-> "",
     threw |-> FALSE]

\* executeCommand up to the point where it awaits the child: validation,
\* sanitization, working-directory check, spawn and registration.
executeCommand(request) ==
    /\ Len(calls) < MaxCalls
    /\ LET v == validateRequest(request)
           sc == sanitizeCommand(request.command)
           sa == sanitizeArguments(request.args)
           wd == validateWorkingDirectory(request.workingDirectory)
       IN  IF v # "OK"
           THEN /\ calls' = Append(calls, RejectedCall(request, v))
                /\ UNCHANGED activeProcesses
           ELSE IF ~sc.ok
           THEN /\ calls' = Append(calls, RejectedCall(request, "COMMAND_NOT_ALLOWED"))
                /\ UNCHANGED activeProcesses
           ELSE IF wd # "OK"
           THEN /\ calls' = Append(calls, RejectedCall(request, wd))
                /\ UNCHANGED activeProcesses
           ELSE /\ calls' = Append(calls, SpawnedCall(request, sc.value, sa))
                /\ activeProcesses' =
                       [activeProcesses EXCEPT ![request.sessionId] = Len(calls) + 1]

\* The record of a call whose promise rejected: the error left the method.
ThrownCall(request) ==
    [RejectedCall(request, "READ_ERROR") EXCEPT !.returned = FALSE, !.threw = TRUE]

\* child.kill('SIGTERM'): a running child receives the signal and child.killed
\* becomes true; a child that is gone receives nothing.
kill(c) == IF c.proc = "running" THEN [c EXCEPT !.killed = TRUE] ELSE c

\* reject(new CLIExecutionError(.., code)): settles a pending promise, and the
\* catch block of executeCommand returns success = false with that error.
reject(c, code) ==
    IF c.promise = "pending"
    THEN [c EXCEPT !.promise = "rejected", !.returned = TRUE,
                   !.success = FALSE, !.error = code]
    ELSE c

\* resolve({stdout, stderr, exitCode}): settles a pending promise, and
\* executeCommand returns success = (exitCode === 0).
resolve(c, exitCode) ==
    IF c.promise = "pending"
    THEN [c EXCEPT !.promise = "resolved", !.returned = TRUE,
                   !.success = (exitCode = 0), !.exitCode = exitCode]
    ELSE c

\* The setTimeout callback of spawnProcess.
OnTimeout(i) ==
    /\ i \in 1..Len(calls)
    /\ calls[i].timer = "armed"
    /\ LET c == [calls[i] EXCEPT !.timer = "fired"]
       IN  calls' = [calls EXCEPT ![i] =
                        IF ~c.killed THEN reject(kill(c), "TIMEOUT") ELSE c]
    /\ UNCHANGED activeProcesses

\* The 'data' handlers of child.stdout and child.stderr (they differ only in
\* the buffer the chunk is added to): a chunk of n characters arrives.
OnData(i, n) ==
    /\ i \in 1..Len(calls)
    /\ calls[i].proc = "running"
    /\ calls[i].outputSize + n <= maxOutputSize + 1
    /\ LET c == [calls[i] EXCEPT !.outputSize = @ + n]
       IN  calls' = [calls EXCEPT ![i] =
                        IF c.outputSize > maxOutputSize
                        THEN reject(kill(c), "OUTPUT_TOO_LARGE") ELSE c]
    /\ UNCHANGED activeProcesses

\* The 'close' handler: the child has exited with a code, or (bySignal) was
\* terminated by a signal and has no code; exitCode is code || 0.
OnClose(i, code, bySignal) ==
    /\ i \in 1..Len(calls)
    /\ calls[i].proc = "running"
    /\ bySignal => calls[i].killed
    /\ LET c == [calls[i] EXCEPT !.proc = "closed",
                                 !.timer = IF @ = "armed" THEN "cleared" ELSE @,
                                 !.signalCode = IF bySignal THEN "SIGTERM" ELSE ""]
       IN  calls' = [calls EXCEPT ![i] = resolve(c, IF bySignal THEN 0 ELSE code)]
    /\ activeProcesses' = [activeProcesses EXCEPT ![calls[i].request.sessionId] = 0]

\* The 'error' handler: the child could not be spawned (ENOENT) or failed.
OnError(i, enoent) ==
    /\ i \in 1..Len(calls)
    /\ calls[i].proc = "running"
    /\ calls[i].outputSize = 0
    /\ ~calls[i].killed
    /\ LET c == [calls[i] EXCEPT !.proc = "failed",
                                 !.timer = IF @ = "armed" THEN "cleared" ELSE @]
       IN  calls' = [calls EXCEPT ![i] =
                        reject(c, IF enoent THEN "COMMAND_NOT_FOUND" ELSE "PROCESS_ERROR")]
    /\ activeProcesses' = [activeProcesses EXCEPT ![calls[i].request.sessionId] = 0]

\* What the last killProcess call was given and what it returned.
Killed(sessionId, result) == [sessionId |-> sessionId, result |-> result]

\* killProcess without the test of process.killed.
killProcessAnyTracked(sessionId) ==
    LET p == activeProcesses[sessionId]
    IN  IF p # 0
        THEN /\ calls' = [calls EXCEPT ![p] = kill(@)]
             /\ activeProcesses' = [activeProcesses EXCEPT ![sessionId] = 0]
             /\ kret' = Killed(sessionId, TRUE)
        ELSE /\ kret' = Killed(sessionId, FALSE)
             /\ UNCHANGED <<calls, activeProcesses>>

\* killProcess(sessionId).
killProcess(sessionId) ==
    LET p == activeProcesses[sessionId]
    IN  IF p # 0 /\ ~calls[p].killed
        THEN /\ calls' = [calls EXCEPT ![p] = kill(@)]
             /\ activeProcesses' = [activeProcesses EXCEPT ![sessionId] = 0]
             /\ kret' = Killed(sessionId, TRUE)
        ELSE /\ kret' = Killed(sessionId, FALSE)
             /\ UNCHANGED <<calls, activeProcesses>>

\* cleanup that signals the children and leaves the registry as it is.
cleanupNoClear ==
    /\ calls' = [i \in 1..Len(calls) |->
                    IF \E sid \in DOMAIN activeProcesses : activeProcesses[sid] = i
                    THEN (IF ~calls[i].killed THEN kill(calls[i]) ELSE calls[i])
                    ELSE calls[i]]
    /\ UNCHANGED activeProcesses

\* cleanup().
cleanup ==
    /\ calls' = [i \in 1..Len(calls) |->
                    IF \E sid \in DOMAIN activeProcesses : activeProcesses[sid] = i
                    THEN (IF ~calls[i].killed THEN kill(calls[i]) ELSE calls[i])
                    ELSE calls[i]]
    /\ activeProcesses' = [sid \in DOMAIN activeProcesses |-> 0]

\* getActiveProcesses().
getActiveProcesses == {sid \in DOMAIN activeProcesses : activeProcesses[sid] # 0}

(***************************************************************************)
(* Session store (database/dal.ts over database/schema.sql).  A table is   *)
(* the sequence of its rows in rowid order; db is the three tables.  Every *)
(* operation returns [ok, db]: whether its statements succeeded and the    *)
(* tables they leave behind.  Times are ticks of one clock; the server     *)
(* runs in UTC.                                                            *)
(***************************************************************************)
TicksPerSecond == 2

\* SQLite's CURRENT_TIMESTAMP has a resolution of one second.
CURRENT_TIMESTAMP == (now \div TicksPerSecond) * TicksPerSecond

Db == [chat_sessions |-> chat_sessions, messages |-> messages, code_blocks |-> code_blocks]

Ids(table) == {table[k].id : k \in 1..Len(table)}

\* A ChatMessage: codeBlocks are the ids of metadata.codeBlocks.
NewMessage(id, timestamp, content, codeBlocks) ==
    [id |-> id, timestamp |-> timestamp, content |-> content, codeBlocks |-> codeBlocks]

\* createChatSession: INSERT INTO chat_sessions; the primary key must be new.
createChatSession(db, session) ==
    IF session.id \in Ids(db.chat_sessions)
    THEN [ok |-> FALSE, db |-> db]
    ELSE [ok |-> TRUE,
          db |-> [db EXCEPT !.chat_sessions =
                     Append(@, [id |-> session.id, name |-> session.name,
                                updated_at |-> CURRENT_TIMESTAMP])]]

\* INSERT INTO messages: the primary key must be new and the session must exist
\* (FOREIGN KEY session_id, with PRAGMA foreign_keys = ON).
insertMessage(db, message, sessionId) ==
    IF message.id \in Ids(db.messages) \/ sessionId \notin Ids(db.chat_sessions)
    THEN [ok |-> FALSE, db |-> db]
    ELSE [ok |-> TRUE,
          db |-> [db EXCEPT !.messages =
                     Append(@, [id |-> message.id, session_id |-> sessionId,
                                timestamp |-> message.timestamp,
                                content |-> message.content,
                                metadata |-> message.codeBlocks])]]

\* createCodeBlock: INSERT INTO code_blocks; the primary key must be new and
\* the message must exist (FOREIGN KEY message_id).
createCodeBlock(db, codeBlock, messageId) ==
    IF codeBlock \in Ids(db.code_blocks) \/ messageId \notin Ids(db.messages)
    THEN [ok |-> FALSE, db |-> db]
    ELSE [ok |-> TRUE,
          db |-> [db EXCEPT !.code_blocks =
                     Append(@, [id |-> codeBlock, message_id |-> messageId])]]

\* for (const codeBlock of codeBlocks) await this.createCodeBlock(..): stops at
\* the first insert that fails, with the earlier inserts done.
RECURSIVE createCodeBlocks(_, _, _)
createCodeBlocks(db, codeBlocks, messageId) ==
    IF codeBlocks = <<>> THEN [ok |-> TRUE, db |-> db]
    ELSE LET r == createCodeBlock(db, Head(codeBlocks), messageId)
         IN  IF r.ok THEN createCodeBlocks(r.db, Tail(codeBlocks), messageId) ELSE r

\* Database.transaction: BEGIN, the operations, COMMIT; ROLLBACK restores the
\* tables as they were at BEGIN when an operation fails.
transaction(db, result) == IF result.ok THEN result ELSE [ok |-> FALSE, db |-> db]

\* createMessage: the message row and its code blocks in one transaction.
createMessage(db, message, sessionId) ==
    transaction(db,
        LET r == insertMessage(db, message, sessionId)
        IN  IF r.ok THEN createCodeBlocks(r.db, message.codeBlocks, message.id) ELSE r)

\* DELETE FROM code_blocks WHERE message_id = ?
deleteCodeBlocksByMessageId(db, messageId) ==
    [db EXCEPT !.code_blocks = SelectSeq(@, LAMBDA b : b.message_id # messageId)]

\* updateMessage: UPDATE messages for the fields given, then, if metadata is
\* given, the old code blocks deleted and the new ones inserted, statement by
\* statement.
updateMessage(db, id, contentGiven, content, metadataGiven, codeBlocks) ==
    IF ~contentGiven /\ ~metadataGiven THEN [ok |-> TRUE, db |-> db]
    ELSE LET updated ==
                 [db EXCEPT !.messages =
                     [k \in 1..Len(@) |->
                         IF @[k].id = id
                         THEN [@[k] EXCEPT
                                  !.content = IF contentGiven THEN content ELSE @,
                                  !.metadata = IF metadataGiven THEN codeBlocks ELSE @]
                         ELSE @[k]]]
         IN  IF metadataGiven
             THEN createCodeBlocks(deleteCodeBlocksByMessageId(updated, id), codeBlocks, id)
             ELSE [ok |-> TRUE, db |-> updated]

\* deleteMessage: the code blocks of the message go with it (ON DELETE CASCADE).
deleteMessage(db, id) ==
    [db EXCEPT !.messages = SelectSeq(@, LAMBDA m : m.id # id),
               !.code_blocks = SelectSeq(@, LAMBDA b : b.message_id # id)]

\* deleteChatSession without the cascade to messages and code blocks.
deleteChatSessionNoCascade(db, id) ==
    [db EXCEPT !.chat_sessions = SelectSeq(@, LAMBDA s : s.id # id)]

\* deleteChatSession: the messages of the session and their code blocks go with
\* it (ON DELETE CASCADE on messages.session_id and code_blocks.message_id).
deleteChatSession(db, id) ==
    LET gone == {db.messages[k].id : k \in {j \in 1..Len(db.messages) :
                                               db.messages[j].session_id = id}}
    IN  [db EXCEPT !.chat_sessions = SelectSeq(@, LAMBDA s : s.id # id),
                   !.messages = SelectSeq(@, LAMBDA m : m.session_id # id),
                   !.code_blocks = SelectSeq(@, LAMBDA b : b.message_id \notin gone)]

\* updateChatSession: UPDATE chat_sessions for the fields name, projectId and
\* context that updates has (here: name; a field is <<>> when absent); an
\* updatedAt in updates is no field of the statement, and with no field there
\* is no statement.  The trigger update_chat_sessions_updated_at refreshes
\* updated_at after an UPDATE.
updateChatSession(db, id, updates) ==
    IF updates.name = <<>> THEN db
    ELSE [db EXCEPT !.chat_sessions =
             [k \in 1..Len(@) |->
                 IF @[k].id = id
                 THEN [@[k] EXCEPT !.name = updates.name[1],
                                   !.updated_at = CURRENT_TIMESTAMP]
                 ELSE @[k]]]

\* ORDER BY timestamp ASC: rows with equal timestamps stay in rowid order.
RECURSIVE insertByTimestamp(_, _)
insertByTimestamp(sorted, row) ==
    IF sorted = <<>> THEN <<row>>
    ELSE IF Head(sorted).timestamp <= row.timestamp
    THEN <<Head(sorted)>> \o insertByTimestamp(Tail(sorted), row)
    ELSE <<row>> \o sorted

RECURSIVE orderByTimestamp(_)
orderByTimestamp(rows) ==
    IF rows = <<>> THEN <<>>
    ELSE insertByTimestamp(orderByTimestamp(SubSeq(rows, 1, Len(rows) - 1)), rows[Len(rows)])

\* getCodeBlocksByMessageId: the ids of the code blocks of a message, in
\* creation order.
getCodeBlocksByMessageId(db, messageId) ==
    LET rows == SelectSeq(db.code_blocks, LAMBDA b : b.message_id = messageId)
    IN  [k \in 1..Len(rows) |-> rows[k].id]

\* mapDatabaseMessageToChatMessage: the code block rows replace the stored
\* metadata's code blocks when there are any.
mapDatabaseMessageToChatMessage(dbMessage, codeBlocks) ==
    NewMessage(dbMessage.id, dbMessage.timestamp, dbMessage.content,
               IF codeBlocks # <<>> THEN codeBlocks ELSE dbMessage.metadata)

\* getMessagesBySessionId: SELECT .. WHERE session_id = ? ORDER BY timestamp ASC.
getMessagesBySessionId(db, sessionId) ==
    LET rows == orderByTimestamp(SelectSeq(db.messages, LAMBDA m : m.session_id = sessionId))
    IN  [k \in 1..Len(rows) |->
            mapDatabaseMessageToChatMessage(rows[k], getCodeBlocksByMessageId(db, rows[k].id))]

\* mapDatabaseSessionToChatSession.
mapDatabaseSessionToChatSession(dbSession, msgs) ==
    [id |-> dbSession.id, name |-> dbSession.name, messages |-> msgs,
     updatedAt |-> dbSession.updated_at]

\* getChatSessionById: <<session>>, or <<>> for undefined.
getChatSessionById(db, id) ==
    LET rows == SelectSeq(db.chat_sessions, LAMBDA s : s.id = id)
    IN  IF rows = <<>> THEN <<>>
        ELSE <<mapDatabaseSessionToChatSession(rows[1], getMessagesBySessionId(db, id))>>

\* ORDER BY updated_at DESC: rows with equal updated_at stay in rowid order.
RECURSIVE insertByUpdatedAtDesc(_, _)
insertByUpdatedAtDesc(sorted, row) ==
    IF sorted = <<>> THEN <<row>>
    ELSE IF Head(sorted).updated_at >= row.updated_at
    THEN <<Head(sorted)>> \o insertByUpdatedAtDesc(Tail(sorted), row)
    ELSE <<row>> \o sorted

RECURSIVE orderByUpdatedAtDesc(_)
orderByUpdatedAtDesc(rows) ==
    IF rows = <<>> THEN <<>>
    ELSE insertByUpdatedAtDesc(orderByUpdatedAtDesc(SubSeq(rows, 1, Len(rows) - 1)),
                               rows[Len(rows)])

\* listChatSessions() with no project filter and no limit.
listChatSessions(db) ==
    LET rows == orderByUpdatedAtDesc(db.chat_sessions)
    IN  [k \in 1..Len(rows) |->
            mapDatabaseSessionToChatSession(rows[k], getMessagesBySessionId(db, rows[k].id))]

\* The tables after an operation.
SetDb(db) ==
    /\ chat_sessions' = db.chat_sessions
    /\ messages' = db.messages
    /\ code_blocks' = db.code_blocks

(***************************************************************************)
(* Session manager (services/sessionManager.ts): the cache over the store. *)
(* ret is [op, id, ok, sessions, message]: the call, its session id,       *)
(* whether it returned rather than threw, the sessions it returned and the *)
(* message it returned.                                                    *)
(***************************************************************************)
Returned(op, id, ok, ss, ms) ==
    [op |-> op, id |-> id, ok |-> ok, sessions |-> ss, message |-> ms]

\* Map.set and Map.delete.
mapSet(map, key, value) ==
    [k \in DOMAIN map \cup {key} |-> IF k = key THEN value ELSE map[k]]

mapDelete(map, key) == [k \in DOMAIN map \ {key} |-> map[k]]

\* getSession that asks the store first and the cache only when the store has
\* no such session.
getSessionStoreFirst(id) ==
    LET loaded == getChatSessionById(Db, id)
    IN  IF loaded # <<>>
        THEN [session |-> loaded, cache |-> mapSet(sessions, id, loaded[1])]
        ELSE IF id \in DOMAIN sessions
        THEN [session |-> <<sessions[id]>>, cache |-> sessions]
        ELSE [session |-> <<>>, cache |-> sessions]

\* getSession: the cached session, else the one loaded from the store, which
\* is cached.  [session, cache]: <<session>> or <<>> for null, and the cache
\* afterwards.
getSession(id) ==
    IF id \in DOMAIN sessions
    THEN [session |-> <<sessions[id]>>, cache |-> sessions]
    ELSE LET loaded == getChatSessionById(Db, id)
         IN  IF loaded # <<>>
             THEN [session |-> loaded, cache |-> mapSet(sessions, id, loaded[1])]
             ELSE [session |-> <<>>, cache |-> sessions]

GetSession(id) ==
    LET g == getSession(id)
    IN  /\ sessions' = g.cache
        /\ ret' = Returned("getSession", id, TRUE, g.session, <<>>)
        /\ UNCHANGED <<chat_sessions, messages, code_blocks, now, nextId, created>>

\* for (const message of session.messages) await dal.createMessage(..): stops
\* at the first message that cannot be created.
RECURSIVE createMessages(_, _, _)
createMessages(db, msgs, sessionId) ==
    IF msgs = <<>> THEN [ok |-> TRUE, db |-> db]
    ELSE LET r == createMessage(db, Head(msgs), sessionId)
         IN  IF r.ok THEN createMessages(r.db, Tail(msgs), sessionId) ELSE r

createSession(name, initial) ==
    /\ nextId < MaxIds
    /\ LET id == nextId + 1
           session == [id |-> id, name |-> name, messages |-> initial, updatedAt |-> now]
           r == createMessages(createChatSession(Db, session).db, initial, id)
       IN  /\ nextId' = id
           /\ SetDb(r.db)
           /\ sessions' = IF r.ok THEN mapSet(sessions, id, session) ELSE sessions
           /\ created' = IF r.ok THEN mapSet(created, id, initial) ELSE created
           /\ ret' = Returned("createSession", id, r.ok,
                              IF r.ok THEN <<session>> ELSE <<>>, <<>>)
           /\ UNCHANGED now

addMessage(sessionId, timestamp, content, codeBlocks) ==
    LET g == getSession(sessionId)
    IN  IF g.session = <<>>
        THEN /\ sessions' = g.cache
             /\ ret' = Returned("addMessage", sessionId, FALSE, <<>>, <<>>)
             /\ UNCHANGED <<chat_sessions, messages, code_blocks, now, nextId, created>>
        ELSE /\ nextId < MaxIds
             /\ LET newMessage == NewMessage(nextId + 1, timestamp, content, codeBlocks)
                    r == createMessage(Db, newMessage, sessionId)
                    session == [g.session[1] EXCEPT !.messages = Append(@, newMessage),
                                                    !.updatedAt = now]
                IN  /\ nextId' = nextId + 1
                    /\ IF r.ok
                       THEN /\ sessions' = mapSet(g.cache, sessionId, session)
                            /\ SetDb(updateChatSession(r.db, sessionId,
                                         [name |-> <<>>, updatedAt |-> <<session.updatedAt>>]))
                            /\ ret' = Returned("addMessage", sessionId, TRUE, <<>>,
                                               <<newMessage>>)
                       ELSE /\ sessions' = g.cache
                            /\ SetDb(r.db)
                            /\ ret' = Returned("addMessage", sessionId, FALSE, <<>>, <<>>)
                    /\ UNCHANGED <<now, created>>

\* updateSession with the spread of updates after the id, so that an id in
\* updates replaces the session's.
updateSessionIdFromUpdates(id, updates) ==
    LET g == getSession(id)
    IN  IF g.session = <<>>
        THEN /\ sessions' = g.cache
             /\ ret' = Returned("updateSession", id, FALSE, <<>>, <<>>)
             /\ UNCHANGED <<chat_sessions, messages, code_blocks, now, nextId, created>>
        ELSE LET updatedSession ==
                     [g.session[1] EXCEPT
                         !.id = IF updates.id # <<>> THEN updates.id[1] ELSE @,
                         !.name = IF updates.name # <<>> THEN updates.name[1] ELSE @,
                         !.updatedAt = now]
             IN  /\ SetDb(updateChatSession(Db, id,
                              [name |-> <<updatedSession.name>>,
                               updatedAt |-> <<updatedSession.updatedAt>>]))
                 /\ sessions' = mapSet(g.cache, id, updatedSession)
                 /\ ret' = Returned("updateSession", id, TRUE, <<>>, <<>>)
                 /\ UNCHANGED <<now, nextId, created>>

\* updateSession: throws 'Session <id> not found' (ok = FALSE) when getSession
\* returns null; else {...session, ...updates, id, updatedAt: new Date()} goes
\* to the store and into the cache.  updates is [id, name], each <<>> when
\* absent.
updateSession(id, updates) ==
    LET g == getSession(id)
    IN  IF g.session = <<>>
        THEN /\ sessions' = g.cache
             /\ ret' = Returned("updateSession", id, FALSE, <<>>, <<>>)
             /\ UNCHANGED <<chat_sessions, messages, code_blocks, now, nextId, created>>
        ELSE LET updatedSession ==
                     [g.session[1] EXCEPT
                         !.id = id,
                         !.name = IF updates.name # <<>> THEN updates.name[1] ELSE @,
                         !.updatedAt = now]
             IN  /\ SetDb(updateChatSession(Db, id,
                              [name |-> <<updatedSession.name>>,
                               updatedAt |-> <<updatedSession.updatedAt>>]))
                 /\ sessions' = mapSet(g.cache, id, updatedSession)
                 /\ ret' = Returned("updateSession", id, TRUE, <<>>, <<>>)
                 /\ UNCHANGED <<now, nextId, created>>

removeSession(id) ==
    /\ SetDb(deleteChatSession(Db, id))
    /\ sessions' = mapDelete(sessions, id)
    /\ ret' = Returned("removeSession", id, TRUE, <<>>, <<>>)
    /\ UNCHANGED <<now, nextId, created>>

removeFromCache(id) ==
    /\ sessions' = mapDelete(sessions, id)
    /\ ret' = Returned("removeFromCache", id, TRUE, <<>>, <<>>)
    /\ UNCHANGED <<chat_sessions, messages, code_blocks, now, nextId, created>>

RECURSIVE setAll(_, _)
setAll(map, list) ==
    IF list = <<>> THEN map ELSE setAll(mapSet(map, Head(list).id, Head(list)), Tail(list))

listSessions ==
    LET list == listChatSessions(Db)
    IN  /\ sessions' = setAll(sessions, list)
        /\ ret' = Returned("listSessions", 0, TRUE, list, <<>>)
        /\ UNCHANGED <<chat_sessions, messages, code_blocks, now, nextId, created>>

\* The clock advances.
Tick ==
    /\ now < MaxTime
    /\ now' = now + 1
    /\ UNCHANGED <<sessions, chat_sessions, messages, code_blocks, nextId, ret, created>>

(***************************************************************************)
(* Project manager (services/projectManager.ts) behind its routes          *)
(* (routes/projects.ts).  pm is the manager's state; an operation returns  *)
(* [ok, pm, id]: whether it returned rather than threw, the state it       *)
(* leaves, and the id of the project it returned.  pret is [op, id,        *)
(* status]: the route, the project id asked for or answered, and the HTTP  *)
(* status of the response.                                                 *)
(***************************************************************************)
NULL == "null"

\* ProjectManagerOptions.maxRecentProjects, kept small.
maxRecentProjects == 2

Pm == [projects |-> projects, recentProjects |-> recentProjects,
       currentProjectId |-> currentProjectId]

SetPm(pm) ==
    /\ projects' = pm.projects
    /\ recentProjects' = pm.recentProjects
    /\ currentProjectId' = pm.currentProjectId

Responded(op, id, status) == [op |-> op, id |-> id, status |-> status]

\* path.resolve: an absolute path without its trailing slash.
pathResolve(p) == IF p = "/ok/" THEN "/ok" ELSE IF p = "/gone/" THEN "/gone" ELSE p

\* validateProjectPath: fs.stat, isDirectory, fs.access(R_OK).
validateProjectPath(projectPath) == fs[pathResolve(projectPath)] = "dir"

\* getProject: <<project>>, or <<>> for null when <id>.json does not exist.
getProject(pm, id) == IF id \in DOMAIN pm.projects THEN <<pm.projects[id]>> ELSE <<>>

\* getProject throws when <id>.json exists and cannot be read or parsed.
getProjectThrows(pm, id) == id \in DOMAIN pm.projects /\ ~pm.projects[id].readable

\* getCurrentProject: [threw, project], the current project as getProject
\* returns it, <<>> for null when none is selected.
getCurrentProject(pm) ==
    IF pm.currentProjectId = NULL \/ pm.currentProjectId = ""
    THEN [threw |-> FALSE, project |-> <<>>]
    ELSE IF getProjectThrows(pm, pm.currentProjectId)
    THEN [threw |-> TRUE, project |-> <<>>]
    ELSE [threw |-> FALSE, project |-> getProject(pm, pm.currentProjectId)]

\* addToRecentProjects without the removal of the id from the list.
addToRecentProjectsNoFilter(pm, projectId) ==
    LET list == <<projectId>> \o pm.recentProjects
    IN  [pm EXCEPT !.recentProjects =
            IF Len(list) > maxRecentProjects THEN SubSeq(list, 1, maxRecentProjects)
            ELSE list]

\* addToRecentProjects: the id moves to the front; the list keeps its first
\* maxRecentProjects entries.
addToRecentProjects(pm, projectId) ==
    LET list == <<projectId>> \o SelectSeq(pm.recentProjects, LAMBDA id : id # projectId)
    IN  [pm EXCEPT !.recentProjects =
            IF Len(list) > maxRecentProjects THEN SubSeq(list, 1, maxRecentProjects)
            ELSE list]

\* createProject: validateCreateProjectRequest, validateProjectPath, then
\* saveProject and addToRecentProjects under the id generateProjectId made.
createProject(pm, name, path) ==
    IF name = "" \/ path = "" \/ ~validateProjectPath(path)
    THEN [ok |-> FALSE, pm |-> pm, id |-> NULL]
    ELSE LET id == ToString(generated + 1)
             project == [id |-> id, name |-> name, path |-> pathResolve(path),
                         updatedAt |-> now, readable |-> TRUE]
         IN  [ok |-> TRUE,
              pm |-> addToRecentProjects(
                         [pm EXCEPT !.projects = mapSet(@, id, project)], id),
              id |-> id]

\* setCurrentProject with the selection made before the project is looked up.
setCurrentProjectAssignFirst(pm, projectId) ==
    LET selected == [pm EXCEPT !.currentProjectId = projectId]
    IN  IF projectId # NULL /\ projectId # ""
        THEN LET project == getProject(pm, projectId)
             IN  IF \/ getProjectThrows(pm, projectId)
                    \/ project = <<>>
                    \/ ~validateProjectPath(project[1].path)
                 THEN [ok |-> FALSE, pm |-> selected, id |-> projectId]
                 ELSE [ok |-> TRUE, pm |-> addToRecentProjects(selected, projectId),
                       id |-> projectId]
        ELSE [ok |-> TRUE, pm |-> selected, id |-> projectId]

\* setCurrentProject: if (projectId) the project must exist and its path must
\* validate, and it joins the recency list; then the selection is made.
setCurrentProject(pm, projectId) ==
    IF projectId # NULL /\ projectId # ""
    THEN LET project == getProject(pm, projectId)
         IN  IF \/ getProjectThrows(pm, projectId)
                \/ project = <<>>
                \/ ~validateProjectPath(project[1].path)
             THEN [ok |-> FALSE, pm |-> pm, id |-> projectId]
             ELSE [ok |-> TRUE,
                   pm |-> [addToRecentProjects(pm, projectId)
                              EXCEPT !.currentProjectId = projectId],
                   id |-> projectId]
    ELSE [ok |-> TRUE, pm |-> [pm EXCEPT !.currentProjectId = projectId], id |-> projectId]

\* deleteProject: fs.unlink; ENOENT is swallowed; else the id leaves the
\* recency list and the selection is cleared if it was selected.
deleteProject(pm, id) ==
    IF id \notin DOMAIN pm.projects THEN pm
    ELSE [pm EXCEPT !.projects = mapDelete(@, id),
                    !.recentProjects = SelectSeq(@, LAMBDA pid : pid # id),
                    !.currentProjectId = IF @ = id THEN NULL ELSE @]

\* listProjects().find(p => p.path === resolvedPath): the projects that can be
\* the first with that path in the list sorted by updatedAt descending (the
\* order among equal updatedAt is that of fs.readdir; a file that cannot be
\* read is skipped).
findByPath(pm, resolvedPath) ==
    LET matching == {id \in DOMAIN pm.projects :
                        pm.projects[id].readable /\ pm.projects[id].path = resolvedPath}
    IN  {id \in matching :
            \A other \in matching : pm.projects[other].updatedAt <= pm.projects[id].updatedAt}

\* openProjectDirectory that looks for a project of the path as it was given
\* rather than of the resolved path.
openProjectDirectoryUnresolved(pm, directoryPath, name) ==
    IF ~validateProjectPath(pathResolve(directoryPath))
    THEN {[ok |-> FALSE, pm |-> pm, id |-> NULL]}
    ELSE LET existing == findByPath(pm, directoryPath)
         IN  IF existing # {}
             THEN {setCurrentProject(pm, id) : id \in existing}
             ELSE {createProject(pm, name, pathResolve(directoryPath))}

\* openProjectDirectory: the results it can have.  An existing project of the
\* resolved path is selected and returned, else one is created.
openProjectDirectory(pm, directoryPath, name) ==
    IF ~validateProjectPath(pathResolve(directoryPath))
    THEN {[ok |-> FALSE, pm |-> pm, id |-> NULL]}
    ELSE LET existing == findByPath(pm, pathResolve(directoryPath))
         IN  IF existing # {}
             THEN {setCurrentProject(pm, id) : id \in existing}
             ELSE {createProject(pm, name, pathResolve(directoryPath))}

\* POST /projects: createProject, then setCurrentProject of the new project.
PostProject(name, path) ==
    IF name = "" \/ path = ""
    THEN /\ pret' = Responded("POST /", NULL, 400)
         /\ UNCHANGED <<projects, recentProjects, currentProjectId, generated>>
    ELSE LET c == createProject(Pm, name, path)
             r == setCurrentProject(c.pm, c.id)
         IN  IF ~c.ok
             THEN /\ pret' = Responded("POST /", NULL, 500)
                  /\ UNCHANGED <<projects, recentProjects, currentProjectId, generated>>
             ELSE /\ generated < MaxProjects
                  /\ generated' = generated + 1
                  /\ SetPm(r.pm)
                  /\ pret' = Responded("POST /", c.id, IF r.ok THEN 201 ELSE 500)

\* POST /projects/open: openProjectDirectory, then setCurrentProject of the
\* project it returned.
PostOpen(directoryPath, name) ==
    IF directoryPath = ""
    THEN /\ pret' = Responded("POST /open", NULL, 400)
         /\ UNCHANGED <<projects, recentProjects, currentProjectId, generated>>
    ELSE \E o \in openProjectDirectory(Pm, directoryPath, name) :
             LET r == setCurrentProject(o.pm, o.id)
                 made == o.ok /\ o.id \notin DOMAIN projects
             IN  /\ made => generated < MaxProjects
                 /\ generated' = IF made THEN generated + 1 ELSE generated
                 /\ SetPm(IF o.ok THEN r.pm ELSE o.pm)
                 /\ pret' = Responded("POST /open", o.id,
                                      IF o.ok /\ r.ok THEN 200 ELSE 500)

\* POST /projects/current: a projectId that is neither null nor a non-blank
\* string is refused; else setCurrentProject.
PostCurrent(projectId) ==
    IF projectId # NULL /\ projectId = ""
    THEN /\ pret' = Responded("POST /current", projectId, 400)
         /\ UNCHANGED <<projects, recentProjects, currentProjectId, generated>>
    ELSE LET r == setCurrentProject(Pm, projectId)
         IN  /\ SetPm(r.pm)
             /\ pret' = Responded("POST /current", projectId, IF r.ok THEN 200 ELSE 500)
             /\ UNCHANGED generated

\* DELETE /projects/:id: 404 unless getProject finds it; else deleteProject.
DeleteProject(id) ==
    IF getProjectThrows(Pm, id)
    THEN /\ pret' = Responded("DELETE /:id", id, 500)
         /\ UNCHANGED <<projects, recentProjects, currentProjectId, generated>>
    ELSE IF getProject(Pm, id) = <<>>
    THEN /\ pret' = Responded("DELETE /:id", id, 404)
         /\ UNCHANGED <<projects, recentProjects, currentProjectId, generated>>
    ELSE /\ SetPm(deleteProject(Pm, id))
         /\ pret' = Responded("DELETE /:id", id, 200)
         /\ UNCHANGED generated

(***************************************************************************)
(* CLI executor, continued: the chat methods that read the current project *)
(* from the project manager.                                               *)
(***************************************************************************)
\* process.cwd(): the directory the server was started in.
processCwd == "/ok"

\* The session id startNewChatSession generates for the n-th call.
chatSessionId(n) == "chat-" \o ToString(n)

\* currentProject?.path || process.cwd()
currentProjectPath(project) ==
    IF project # <<>> /\ project[1].path # "" THEN project[1].path ELSE processCwd

\* startNewChatSession up to the point where it awaits the child; everything
\* is inside its try block, and its catch block returns success = false.
startNewChatSession(workingDirectory, timeoutGiven, timeout) ==
    /\ Len(calls) < MaxCalls
    /\ LET sessionId == chatSessionId(Len(calls) + 1)
           current == getCurrentProject(Pm)
           dir == IF workingDirectory # "" THEN workingDirectory
                  ELSE currentProjectPath(current.project)
           request == NewRequest(<<"g">>, TRUE, <<<<"-", "p">>, <<"H", "i">>>>, dir,
                                 sessionId, timeoutGiven, timeout)
           wd == validateWorkingDirectory(dir)
       IN  IF workingDirectory = "" /\ current.threw
           THEN /\ calls' = Append(calls, RejectedCall(request, "UNEXPECTED_ERROR"))
                /\ UNCHANGED activeProcesses
           ELSE IF wd # "OK"
           THEN /\ calls' = Append(calls, RejectedCall(request, wd))
                /\ UNCHANGED activeProcesses
           ELSE /\ calls' = Append(calls, SpawnedCall(request, request.command, request.args))
                /\ activeProcesses' = [activeProcesses EXCEPT ![sessionId] = Len(calls) + 1]

\* sendMessageToSession: the current project is read before, and outside,
\* the try block of executeCommand.
sendMessageToSession(sessionId, message, workingDirectory) ==
    LET current == getCurrentProject(Pm)
        finalWorkingDirectory == IF workingDirectory # "" THEN workingDirectory
                                 ELSE currentProjectPath(current.project)
        request == NewRequest(<<"g">>, TRUE, <<<<"-", "y">>, <<"-", "p">>, message>>,
                              finalWorkingDirectory, sessionId, FALSE, 0)
    IN  IF workingDirectory = "" /\ current.threw
        THEN /\ Len(calls) < MaxCalls
             /\ calls' = Append(calls, ThrownCall(request))
             /\ UNCHANGED activeProcesses
        ELSE executeCommand(request)

(***************************************************************************)
(* Code block extraction (stores/chatStore.ts, and the session manager's   *)
(* extractCodeBlocks).  Texts are sequences of one-character strings; the  *)
(* backtick is "BACKTICK" and the line feed is NL.  A code block is        *)
(* [language, content]; its id is a fresh random string and is left out.   *)
(***************************************************************************)
NL == "NL"
WordChars == {"p", "y", "c", "x", "_"}
WhiteSpace == {" ", NL}

\* Three backticks at index i.
fenceAt(s, i) ==
    /\ i >= 1 /\ i + 2 <= Len(s)
    /\ s[i] = "BACKTICK" /\ s[i + 1] = "BACKTICK" /\ s[i + 2] = "BACKTICK"

\* (\w+)? is greedy: the index after the run of word characters from j.
RECURSIVE wordRun(_, _)
wordRun(s, j) ==
    IF j <= Len(s) /\ s[j] \in WordChars THEN wordRun(s, j + 1) ELSE j

\* ([\s\S]*?)``` is lazy: the index of the first fence from e on, or 0.
RECURSIVE nextFence(_, _)
nextFence(s, e) ==
    IF e + 2 > Len(s) THEN 0
    ELSE IF fenceAt(s, e) THEN e
    ELSE nextFence(s, e + 1)

NoMatch == [found |-> FALSE, first |-> 0, last |-> 0, language |-> <<>>, content |-> <<>>]

\* The match of the pattern at index i: three backticks, word characters, a
\* line feed, anything up to the next three backticks.
matchAt(s, i) ==
    IF ~fenceAt(s, i) THEN NoMatch
    ELSE LET k == wordRun(s, i + 3)
         IN  IF k > Len(s) \/ s[k] # NL THEN NoMatch
             ELSE LET e == nextFence(s, k + 1)
                  IN  IF e = 0 THEN NoMatch
                      ELSE [found |-> TRUE, first |-> i, last |-> e + 2,
                            language |-> SubSeq(s, i + 3, k - 1),
                            content |-> SubSeq(s, k + 1, e - 1)]

\* codeBlockRegex.exec(text) with lastIndex: the leftmost match from there.
RECURSIVE exec(_, _)
exec(s, lastIndex) ==
    IF lastIndex > Len(s) THEN NoMatch
    ELSE LET m == matchAt(s, lastIndex)
         IN  IF m.found THEN m ELSE exec(s, lastIndex + 1)

\* String.prototype.trim.
RECURSIVE trimStart(_)
trimStart(s) ==
    IF s # <<>> /\ Head(s) \in WhiteSpace THEN trimStart(Tail(s)) ELSE s

RECURSIVE trimEnd(_)
trimEnd(s) ==
    IF s # <<>> /\ s[Len(s)] \in WhiteSpace THEN trimEnd(SubSeq(s, 1, Len(s) - 1)) ELSE s

trim(s) == trimEnd(trimStart(s))

\* String.prototype.indexOf: the first index where sub occurs from i on, or 0.
RECURSIVE indexOf(_, _, _)
indexOf(s, sub, i) ==
    IF i + Len(sub) - 1 > Len(s) THEN 0
    ELSE IF SubSeq(s, i, i + Len(sub) - 1) = sub THEN i
    ELSE indexOf(s, sub, i + 1)

\* String.prototype.replace(sub, ''): the first occurrence of sub is removed.
removeFirst(s, sub) ==
    LET i == indexOf(s, sub, 1)
    IN  IF i = 0 THEN s
        ELSE SubSeq(s, 1, i - 1) \o SubSeq(s, i + Len(sub), Len(s))

\* match[1] || 'text'.
languageOf(m) == IF m.language = <<>> THEN <<"t", "e", "x", "t">> ELSE m.language

\* The while loop of extractCodeBlocksAndCleanContent from lastIndex on.
RECURSIVE extractLoop(_, _, _, _)
extractLoop(text, lastIndex, codeBlocks, cleanedContent) ==
    LET m == exec(text, lastIndex)
    IN  IF ~m.found THEN [content |-> cleanedContent, codeBlocks |-> codeBlocks]
        ELSE extractLoop(text, m.last + 1,
                 Append(codeBlocks, [language |-> languageOf(m), content |-> trim(m.content)]),
                 trim(removeFirst(cleanedContent, SubSeq(text, m.first, m.last))))

\* extractCodeBlocksAndCleanContent: [content, codeBlocks] (codeBlocks <<>>
\* for undefined).
extractCodeBlocksAndCleanContent(text) == extractLoop(text, 1, <<>>, text)

\* SessionManager.extractCodeBlocks: the code blocks alone, the text untouched.
extractCodeBlocks(message) ==
    [content |-> message, codeBlocks |-> extractLoop(message, 1, <<>>, message).codeBlocks]

(***************************************************************************)
(* Initial values.                                                         *)
(***************************************************************************)
Sids == {"s1", "s2"} \cup {chatSessionId(n) : n \in 1..MaxCalls}
Paths == {"/ok", "/gone", "/file"}

InitExecVars ==
    /\ calls = <<>>
    /\ activeProcesses = [sid \in Sids |-> 0]
    /\ inbox = <<>>
    /\ kret = Killed("", FALSE)

InitSessionVars ==
    /\ sessions = <<>>
    /\ chat_sessions = <<>>
    /\ messages = <<>>
    /\ code_blocks = <<>>
    /\ now = 0
    /\ nextId = 0
    /\ ret = Returned("none", 0, TRUE, <<>>, <<>>)
    /\ created = <<>>

InitProjectVars ==
    /\ projects = <<>>
    /\ recentProjects = <<>>
    /\ currentProjectId = NULL
    /\ generated = 0
    /\ fs = [p \in Paths |-> IF p = "/ok" THEN "dir" ELSE IF p = "/file" THEN "file" ELSE "missing"]
    /\ pret = Responded("none", NULL, 200)

InitChatVars ==
    /\ doc = <<>>
    /\ extraction = [op |-> "none", content |-> <<>>, codeBlocks |-> <<>>]

\* No request is in flight and no transaction is open.
InitAsyncVars ==
    /\ inflight = <<>>
    /\ snapshot = <<>>

(***************************************************************************)
(* SpecExec: concurrent executeCommand calls, their children's events,     *)
(* killProcess and cleanup.                                                *)
(***************************************************************************)
ExecRequests ==
    {NewRequest(<<"g">>, TRUE, <<>>, "/ok", sid, FALSE, 0) : sid \in Sids}
    \cup {NewRequest(<<"r">>, TRUE, <<>>, "/ok", "s1", FALSE, 0),
          NewRequest(<<"g">>, TRUE, <<>>, "/gone", "s1", FALSE, 0),
          NewRequest(<<"g">>, TRUE, <<>>, "/ok", "s1", TRUE, 0)}

ExecInit == InitExecVars /\ InitSessionVars /\ InitProjectVars /\ InitChatVars /\ InitAsyncVars

ExecCall ==
    /\ \E request \in ExecRequests : executeCommand(request)
    /\ UNCHANGED <<inbox, kret, sessionVars, projectVars, chatVars, asyncVars>>

ChildTimeout ==
    /\ \E i \in 1..MaxCalls : OnTimeout(i)
    /\ UNCHANGED <<inbox, kret, sessionVars, projectVars, chatVars, asyncVars>>

ChildData ==
    /\ \E i \in 1..MaxCalls, n \in 1..2 : OnData(i, n)
    /\ UNCHANGED <<inbox, kret, sessionVars, projectVars, chatVars, asyncVars>>

ChildClose ==
    /\ \E i \in 1..MaxCalls, code \in {0, 1}, bySignal \in BOOLEAN :
           OnClose(i, code, bySignal)
    /\ UNCHANGED <<inbox, kret, sessionVars, projectVars, chatVars, asyncVars>>

ChildError ==
    /\ \E i \in 1..MaxCalls, enoent \in BOOLEAN : OnError(i, enoent)
    /\ UNCHANGED <<inbox, kret, sessionVars, projectVars, chatVars, asyncVars>>

KillCall ==
    /\ \E sid \in Sids : killProcess(sid)
    /\ UNCHANGED <<inbox, sessionVars, projectVars, chatVars, asyncVars>>

CleanupCall ==
    /\ cleanup
    /\ UNCHANGED <<inbox, kret, sessionVars, projectVars, chatVars, asyncVars>>

ExecNext ==
    \/ ExecCall
    \/ ChildTimeout
    \/ ChildData
    \/ ChildClose
    \/ ChildError
    \/ KillCall
    \/ CleanupCall

SpecExec == ExecInit /\ [][ExecNext]_vars

(***************************************************************************)
(* SpecKill: killProcess and cleanup against running children, some of     *)
(* them already signalled by their timeout, some sharing a session id.     *)
(***************************************************************************)
KillRequests == {NewRequest(<<"g">>, TRUE, <<>>, "/ok", sid, FALSE, 0) : sid \in {"s1", "s2"}}

KillInit == InitExecVars /\ InitSessionVars /\ InitProjectVars /\ InitChatVars /\ InitAsyncVars

KillExecCall ==
    /\ \E request \in KillRequests : executeCommand(request)
    /\ UNCHANGED <<inbox, kret, sessionVars, projectVars, chatVars, asyncVars>>

KillNext ==
    \/ KillExecCall
    \/ ChildTimeout
    \/ ChildClose
    \/ KillCall
    \/ CleanupCall

SpecKill == KillInit /\ [][KillNext]_vars

\* SpecKill where every timer that is armed fires or is cleared: setTimeout
\* runs its callback once the delay has elapsed.  Nothing makes a child close.
SpecKillFair == KillInit /\ [][KillNext]_vars /\ WF_vars(ChildTimeout)

(***************************************************************************)
(* SpecChat: startNewChatSession and sendMessageToSession, with a current  *)
(* project whose directory or whose file may have changed on disk since it *)
(* was selected.                                                           *)
(***************************************************************************)
\* The project files on disk: none, or project "1" rooted at a directory,
\* readable or (truncated by a write in progress, or damaged) not.
ChatProjects ==
    {<<>>} \cup {[id \in {"1"} |-> [id |-> "1", name |-> "n", path |-> p, updatedAt |-> 0,
                                    readable |-> r]] :
                     p \in {"/ok", "/gone"}, r \in BOOLEAN}

ChatInit ==
    /\ InitExecVars
    /\ InitSessionVars
    /\ InitChatVars
    /\ InitAsyncVars
    /\ projects \in ChatProjects
    /\ currentProjectId \in {NULL, "1"}
    /\ recentProjects = IF currentProjectId = NULL THEN <<>> ELSE <<currentProjectId>>
    /\ generated = 1
    /\ fs = [p \in Paths |-> IF p = "/ok" THEN "dir" ELSE IF p = "/file" THEN "file" ELSE "missing"]
    /\ pret = Responded("none", NULL, 200)

StartChatCall ==
    /\ \E wd \in {"", "/ok", "/file"}, t \in {<<FALSE, 0>>, <<TRUE, 0>>, <<TRUE, 1>>} :
           startNewChatSession(wd, t[1], t[2])
    /\ UNCHANGED <<inbox, kret, sessionVars, projectVars, chatVars, asyncVars>>

SendMessageCall ==
    /\ \E sid \in {"s1", ""}, message \in {<<"x">>, <<"x", ";">>}, wd \in {"", "/ok", "/gone"} :
           sendMessageToSession(sid, message, wd)
    /\ UNCHANGED <<inbox, kret, sessionVars, projectVars, chatVars, asyncVars>>

ChatNext ==
    \/ StartChatCall
    \/ SendMessageCall
    \/ ChildTimeout
    \/ ChildData
    \/ ChildClose
    \/ ChildError

SpecChat == ChatInit /\ [][ChatNext]_vars

(***************************************************************************)
(* SpecInput: the executor handling request bodies of every shape.  The    *)
(* inbox holds one request, or a plain accepted request followed by one.   *)
(***************************************************************************)
Alphabet == MetaChars \cup {"g", "x", " "}
Strings == UNION {[1..k -> Alphabet] : k \in 0..MaxStrLen}

InputRequests ==
    {NewRequest(c, TRUE, <<<<";", "x", "$">>>>, "/ok", "s1", FALSE, 0) : c \in Strings}
    \cup {NewRequest(<<"g">>, TRUE, a, "/ok", "s1", FALSE, 0) :
              a \in {<<s>> : s \in Strings} \cup {<<<<"x">>, s>> : s \in Strings}}
    \cup {NewRequest(c, a, <<>>, wd, sid, t[1], t[2]) :
              c \in {<<>>, <<"g">>, <<"x">>}, a \in BOOLEAN, wd \in Paths \cup {""},
              sid \in {"s1", ""}, t \in {<<FALSE, 0>>, <<TRUE, 0>>, <<TRUE, 0 - 1>>, <<TRUE, 1>>}}

InputInit ==
    /\ calls = <<>>
    /\ activeProcesses = [sid \in Sids |-> 0]
    /\ kret = Killed("", FALSE)
    /\ \E r \in InputRequests :
           \/ inbox = <<r>>
           \/ inbox = <<NewRequest(<<"g">>, TRUE, <<>>, "/ok", "s2", FALSE, 0), r>>
    /\ InitSessionVars
    /\ InitProjectVars
    /\ InitChatVars
    /\ InitAsyncVars

HandleRequest ==
    /\ inbox # <<>>
    /\ executeCommand(Head(inbox))
    /\ inbox' = Tail(inbox)
    /\ UNCHANGED <<kret, sessionVars, projectVars, chatVars, asyncVars>>

InputNext ==
    \/ HandleRequest
    \/ ChildClose

SpecInput == InputInit /\ [][InputNext]_vars

(***************************************************************************)
(* SpecSession: calls of the session manager, one at a time, and the       *)
(* clock.  Initial messages and code blocks carry ids chosen by the        *)
(* client (negative, apart from the ids uuidv4() hands out).               *)
(***************************************************************************)
Names == {"n2"}

\* The updates handed to updateSession: a name, and perhaps an id (that of
\* the first session created, which is the session updated or another one).
SessionUpdates ==
    {[id |-> i, name |-> <<name>>] :
        i \in {<<>>, <<1>>}, name \in Names}
MessageTimes == {1, 2}
CodeBlockLists == {<<>>, <<3, 1>>}

InitialMessageLists ==
    { <<>>,
      <<NewMessage(-1, 1, "c", <<>>), NewMessage(-2, 2, "c", <<1, 2>>)>>,
      <<NewMessage(-1, 2, "c", <<1>>), NewMessage(-2, 1, "c", <<>>)>> }

SessionInit == InitExecVars /\ InitSessionVars /\ InitProjectVars /\ InitChatVars /\ InitAsyncVars

CreateSessionCall ==
    /\ \E initial \in InitialMessageLists : createSession("n1", initial)
    /\ UNCHANGED <<execVars, projectVars, chatVars, asyncVars>>

GetSessionCall ==
    /\ \E id \in 1..nextId : GetSession(id)
    /\ UNCHANGED <<execVars, projectVars, chatVars, asyncVars>>

AddMessageCall ==
    /\ \E id \in 1..nextId, t \in MessageTimes, bs \in CodeBlockLists :
           addMessage(id, t, "c", bs)
    /\ UNCHANGED <<execVars, projectVars, chatVars, asyncVars>>

UpdateSessionCall ==
    /\ \E id \in 1..nextId, updates \in SessionUpdates : updateSession(id, updates)
    /\ UNCHANGED <<execVars, projectVars, chatVars, asyncVars>>

RemoveSessionCall ==
    /\ \E id \in 1..nextId : removeSession(id)
    /\ UNCHANGED <<execVars, projectVars, chatVars, asyncVars>>

RemoveFromCacheCall ==
    /\ \E id \in 1..nextId : removeFromCache(id)
    /\ UNCHANGED <<execVars, projectVars, chatVars, asyncVars>>

ListSessionsCall ==
    /\ listSessions
    /\ UNCHANGED <<execVars, projectVars, chatVars, asyncVars>>

ClockTick ==
    /\ Tick
    /\ UNCHANGED <<execVars, projectVars, chatVars, asyncVars>>

SessionNext ==
    \/ CreateSessionCall
    \/ GetSessionCall
    \/ AddMessageCall
    \/ UpdateSessionCall
    \/ RemoveSessionCall
    \/ RemoveFromCacheCall
    \/ ListSessionsCall
    \/ ClockTick

SpecSession == SessionInit /\ [][SessionNext]_vars

(***************************************************************************)
(* SpecStore: calls of the data access layer, one at a time, with ids      *)
(* chosen by the caller, so that inserts meet rows that exist already.     *)
(***************************************************************************)
StoreSessionIds == {1, 2}
StoreMessageIds == {-1, -2}
StoreCodeBlockLists == {<<>>, <<1>>, <<1, 2>>, <<2>>}

StoreInit == InitExecVars /\ InitSessionVars /\ InitProjectVars /\ InitChatVars /\ InitAsyncVars

StoreCall(op, id, result) ==
    /\ SetDb(result.db)
    /\ ret' = Returned(op, id, result.ok, <<>>, <<>>)
    /\ UNCHANGED <<sessions, now, nextId, created>>

DalCreateChatSession ==
    /\ \E id \in StoreSessionIds :
           StoreCall("createChatSession", id,
                     createChatSession(Db, [id |-> id, name |-> "n1"]))
    /\ UNCHANGED <<execVars, projectVars, chatVars, asyncVars>>

DalCreateMessage ==
    /\ \E id \in StoreMessageIds, sessionId \in StoreSessionIds, bs \in StoreCodeBlockLists :
           StoreCall("createMessage", id,
                     createMessage(Db, NewMessage(id, 1, "c", bs), sessionId))
    /\ UNCHANGED <<execVars, projectVars, chatVars, asyncVars>>

DalUpdateMessage ==
    /\ \E id \in StoreMessageIds, contentGiven \in BOOLEAN, metadataGiven \in BOOLEAN,
          bs \in StoreCodeBlockLists :
           StoreCall("updateMessage", id,
                     updateMessage(Db, id, contentGiven, "d", metadataGiven, bs))
    /\ UNCHANGED <<execVars, projectVars, chatVars, asyncVars>>

DalDeleteMessage ==
    /\ \E id \in StoreMessageIds :
           StoreCall("deleteMessage", id, [ok |-> TRUE, db |-> deleteMessage(Db, id)])
    /\ UNCHANGED <<execVars, projectVars, chatVars, asyncVars>>

DalDeleteChatSession ==
    /\ \E id \in StoreSessionIds :
           StoreCall("deleteChatSession", id, [ok |-> TRUE, db |-> deleteChatSession(Db, id)])
    /\ UNCHANGED <<execVars, projectVars, chatVars, asyncVars>>

StoreNext ==
    \/ DalCreateChatSession
    \/ DalCreateMessage
    \/ DalUpdateMessage
    \/ DalDeleteMessage
    \/ DalDeleteChatSession

SpecStore == StoreInit /\ [][StoreNext]_vars

(***************************************************************************)
(* SpecProject: requests to the project routes, one at a time, while       *)
(* directories come and go and the clock advances.                         *)
(***************************************************************************)
ProjectPaths == {"/ok", "/gone"}
DirectoryInputs == {"", "/ok", "/ok/", "/gone"}
ProjectIdInputs == {NULL, "", "ghost"} \cup {ToString(k) : k \in 1..MaxProjects}

ProjectInit == InitExecVars /\ InitSessionVars /\ InitProjectVars /\ InitChatVars /\ InitAsyncVars

PostProjectCall ==
    /\ \E name \in {"", "n1"}, path \in DirectoryInputs : PostProject(name, path)
    /\ UNCHANGED <<fs, execVars, sessionVars, chatVars, asyncVars>>

PostOpenCall ==
    /\ \E path \in DirectoryInputs : PostOpen(path, "n1")
    /\ UNCHANGED <<fs, execVars, sessionVars, chatVars, asyncVars>>

PostCurrentCall ==
    /\ \E projectId \in ProjectIdInputs : PostCurrent(projectId)
    /\ UNCHANGED <<fs, execVars, sessionVars, chatVars, asyncVars>>

DeleteProjectCall ==
    /\ \E id \in ProjectIdInputs \ {NULL, ""} : DeleteProject(id)
    /\ UNCHANGED <<fs, execVars, sessionVars, chatVars, asyncVars>>

\* A directory is removed, replaced by a file, made unreadable, or made.
FsChange ==
    /\ \E p \in ProjectPaths, status \in {"dir", "file", "missing", "unreadable"} :
           /\ fs[p] # status
           /\ p = "/gone" => status \in {"dir", "missing"}
           /\ fs' = [fs EXCEPT ![p] = status]
    /\ UNCHANGED <<projects, recentProjects, currentProjectId, generated, pret,
                   execVars, sessionVars, chatVars, asyncVars>>

ProjectNext ==
    \/ PostProjectCall
    \/ PostOpenCall
    \/ PostCurrentCall
    \/ DeleteProjectCall
    \/ FsChange
    \/ ClockTick

SpecProject == ProjectInit /\ [][ProjectNext]_vars

(***************************************************************************)
(* SpecRecent: the methods of the project manager called directly, in any  *)
(* order, with more projects than the recency list holds, while the        *)
(* directories come and go.  pret is [op, id, status] with the method as   *)
(* op, the id given or returned, and 200 (returned) or 500 (threw).        *)
(***************************************************************************)
RecentIdInputs == {NULL, "ghost"} \cup {ToString(k) : k \in 1..MaxCreated}

RecentInit == InitExecVars /\ InitSessionVars /\ InitProjectVars /\ InitChatVars /\ InitAsyncVars

CreateProjectCall ==
    /\ \E path \in ProjectPaths :
           LET c == createProject(Pm, "n1", path)
           IN  /\ c.ok => generated < MaxCreated
               /\ generated' = IF c.ok THEN generated + 1 ELSE generated
               /\ SetPm(c.pm)
               /\ pret' = Responded("createProject", c.id, IF c.ok THEN 200 ELSE 500)
    /\ UNCHANGED <<fs, execVars, sessionVars, chatVars, asyncVars>>

SetCurrentProjectCall ==
    /\ \E projectId \in RecentIdInputs :
           LET r == setCurrentProject(Pm, projectId)
           IN  /\ SetPm(r.pm)
               /\ pret' = Responded("setCurrentProject", projectId,
                                    IF r.ok THEN 200 ELSE 500)
    /\ UNCHANGED <<generated, fs, execVars, sessionVars, chatVars, asyncVars>>

OpenProjectDirectoryCall ==
    /\ \E path \in {"/ok", "/ok/", "/gone"} :
           \E o \in openProjectDirectory(Pm, path, "n1") :
               LET made == o.ok /\ o.id \notin DOMAIN projects
               IN  /\ made => generated < MaxCreated
                   /\ generated' = IF made THEN generated + 1 ELSE generated
                   /\ SetPm(o.pm)
                   /\ pret' = Responded("openProjectDirectory", o.id,
                                        IF o.ok THEN 200 ELSE 500)
    /\ UNCHANGED <<fs, execVars, sessionVars, chatVars, asyncVars>>

DeleteProjectMethodCall ==
    /\ \E id \in RecentIdInputs \ {NULL} :
           /\ SetPm(deleteProject(Pm, id))
           /\ pret' = Responded("deleteProject", id, 200)
    /\ UNCHANGED <<generated, fs, execVars, sessionVars, chatVars, asyncVars>>

RecentNext ==
    \/ CreateProjectCall
    \/ SetCurrentProjectCall
    \/ OpenProjectDirectoryCall
    \/ DeleteProjectMethodCall
    \/ FsChange

SpecRecent == RecentInit /\ [][RecentNext]_vars

(***************************************************************************)
(* SpecExtract: the extraction applied to texts made of prose and fenced   *)
(* code blocks.  doc is the sequence of pieces; Render is the text.        *)
(***************************************************************************)
Tags == {<<>>, <<"p", "y">>, <<"c", "+", "+">>}
Bodies == {<<>>, <<"x">>, <<" ", "x", NL>>, <<"x", NL, "y">>}
Proses == {<<"x", " ">>, <<NL>>}

Pieces ==
    [kind : {"block"}, tag : Tags, body : Bodies]
        \cup [kind : {"prose"}, tag : {<<>>}, body : Proses]

Fence == <<"BACKTICK", "BACKTICK", "BACKTICK">>

RenderPiece(piece) ==
    IF piece.kind = "block" THEN Fence \o piece.tag \o <<NL>> \o piece.body \o Fence
    ELSE piece.body

RECURSIVE Render(_)
Render(pieces) ==
    IF pieces = <<>> THEN <<>> ELSE RenderPiece(Head(pieces)) \o Render(Tail(pieces))

Docs == UNION {[1..n -> Pieces] : n \in 0..MaxItems}

ExtractInit ==
    /\ InitExecVars /\ InitSessionVars /\ InitProjectVars /\ InitAsyncVars
    /\ doc \in Docs
    /\ extraction = [op |-> "none", content |-> <<>>, codeBlocks |-> <<>>]

\* The chat store receives the text as the output of the CLI.
ExtractAndClean ==
    /\ extraction' = [op |-> "extractCodeBlocksAndCleanContent"]
                         @@ extractCodeBlocksAndCleanContent(Render(doc))
    /\ UNCHANGED <<doc, execVars, sessionVars, projectVars, asyncVars>>

\* The session manager extracts the code blocks of an imported message.
ExtractOnly ==
    /\ extraction' = [op |-> "extractCodeBlocks"] @@ extractCodeBlocks(Render(doc))
    /\ UNCHANGED <<doc, execVars, sessionVars, projectVars, asyncVars>>

ExtractNext == ExtractAndClean \/ ExtractOnly

SpecExtract == ExtractInit /\ [][ExtractNext]_vars

(***************************************************************************)
(* SpecTxn: the session manager answering several requests at once.  Every *)
(* request runs up to its next await; the awaited statement is run on the  *)
(* one connection the requests share (database.ts: this.db) and the        *)
(* request goes on from there, in one step.  The connection was opened in  *)
(* the default (parallel) mode, so the statements that wait run in any     *)
(* order.  inflight is [addMessage, getSession]: <<the request>> where     *)
(* there is one, with the statement it awaits (pc) and its local values.   *)
(***************************************************************************)
TxnCodeBlockLists == {<<3, 1>>}

NoRequests == [addMessage |-> <<>>, getSession |-> <<>>]

TxnInit ==
    /\ InitExecVars /\ InitSessionVars /\ InitProjectVars /\ InitChatVars
    /\ inflight = NoRequests
    /\ snapshot = <<>>

\* createSession without initial messages: its one INSERT, then the cache.
TxnCreateSessionCall ==
    /\ nextId < MaxCreated
    /\ \E name \in Names :
           LET id == nextId + 1
               session == [id |-> id, name |-> name, messages |-> <<>>, updatedAt |-> now]
               r == createChatSession(Db, session)
           IN  /\ nextId' = id
               /\ SetDb(r.db)
               /\ sessions' = IF r.ok THEN mapSet(sessions, id, session) ELSE sessions
               /\ created' = IF r.ok THEN mapSet(created, id, <<>>) ELSE created
               /\ ret' = Returned("createSession", id, r.ok,
                                  IF r.ok THEN <<session>> ELSE <<>>, <<>>)
    /\ UNCHANGED <<now, inflight, snapshot>>
    /\ UNCHANGED <<execVars, projectVars, chatVars>>

\* addMessage up to dal.createMessage: the session (here from the cache, or
\* loaded at once), the new message, and beginTransaction awaited.
TxnAddMessageCall ==
    /\ inflight.addMessage = <<>>
    /\ nextId < MaxCreated
    /\ \E sessionId \in 1..nextId, codeBlocks \in TxnCodeBlockLists :
           LET g == getSession(sessionId)
               newMessage == NewMessage(nextId + 1, now, "m", codeBlocks)
           IN  /\ sessions' = g.cache
               /\ IF g.session = <<>>
                  THEN /\ ret' = Returned("addMessage", sessionId, FALSE, <<>>, <<>>)
                       /\ UNCHANGED <<nextId, inflight>>
                  ELSE /\ nextId' = nextId + 1
                       /\ inflight' = [inflight EXCEPT !.addMessage =
                              <<[pc |-> "BEGIN", sessionId |-> sessionId,
                                 session |-> g.session[1], newMessage |-> newMessage,
                                 k |-> 1]>>]
                       /\ UNCHANGED ret
    /\ UNCHANGED <<chat_sessions, messages, code_blocks, now, created, snapshot>>
    /\ UNCHANGED <<execVars, projectVars, chatVars>>

\* Database.beginTransaction: BEGIN TRANSACTION.  With a transaction open on
\* the connection the statement fails, and transaction() throws before its try.
AddMessageBegin ==
    /\ inflight.addMessage # <<>>
    /\ inflight.addMessage[1].pc = "BEGIN"
    /\ IF snapshot # <<>>
       THEN /\ inflight' = [inflight EXCEPT !.addMessage = <<>>]
            /\ ret' = Returned("addMessage", inflight.addMessage[1].sessionId, FALSE,
                               <<>>, <<>>)
            /\ UNCHANGED snapshot
       ELSE /\ snapshot' = <<Db>>
            /\ inflight' = [inflight EXCEPT !.addMessage[1].pc = "INSERT"]
            /\ UNCHANGED ret
    /\ UNCHANGED <<sessions, chat_sessions, messages, code_blocks, now, nextId, created>>
    /\ UNCHANGED <<execVars, projectVars, chatVars>>

\* createMessage: INSERT INTO messages.
AddMessageInsert ==
    /\ inflight.addMessage # <<>>
    /\ inflight.addMessage[1].pc = "INSERT"
    /\ LET t == inflight.addMessage[1]
           r == insertMessage(Db, t.newMessage, t.sessionId)
       IN  /\ SetDb(r.db)
           /\ inflight' = [inflight EXCEPT !.addMessage[1].pc =
                              IF ~r.ok THEN "ROLLBACK"
                              ELSE IF t.newMessage.codeBlocks = <<>> THEN "COMMIT"
                              ELSE "BLOCK"]
    /\ UNCHANGED <<sessions, now, nextId, ret, created, snapshot>>
    /\ UNCHANGED <<execVars, projectVars, chatVars>>

\* createMessage: await this.createCodeBlock(codeBlock, message.id), for the
\* k-th code block.
AddMessageCodeBlock ==
    /\ inflight.addMessage # <<>>
    /\ inflight.addMessage[1].pc = "BLOCK"
    /\ LET t == inflight.addMessage[1]
           r == createCodeBlock(Db, t.newMessage.codeBlocks[t.k], t.newMessage.id)
       IN  /\ SetDb(r.db)
           /\ inflight' = [inflight EXCEPT !.addMessage[1] =
                              IF ~r.ok THEN [t EXCEPT !.pc = "ROLLBACK"]
                              ELSE IF t.k = Len(t.newMessage.codeBlocks)
                              THEN [t EXCEPT !.pc = "COMMIT"]
                              ELSE [t EXCEPT !.k = t.k + 1]]
    /\ UNCHANGED <<sessions, now, nextId, ret, created, snapshot>>
    /\ UNCHANGED <<execVars, projectVars, chatVars>>

\* Database.commit: COMMIT makes everything written on the connection since
\* BEGIN permanent; then addMessage goes on: the message is pushed to the
\* session it holds, which is set in the cache, and the store is updated.
AddMessageCommit ==
    /\ inflight.addMessage # <<>>
    /\ inflight.addMessage[1].pc = "COMMIT"
    /\ LET t == inflight.addMessage[1]
           session == [t.session EXCEPT !.messages = Append(@, t.newMessage),
                                        !.updatedAt = now]
       IN  /\ snapshot' = <<>>
           /\ sessions' = mapSet(sessions, t.sessionId, session)
           /\ SetDb(updateChatSession(Db, t.sessionId,
                        [name |-> <<>>, updatedAt |-> <<session.updatedAt>>]))
           /\ ret' = Returned("addMessage", t.sessionId, TRUE, <<>>, <<t.newMessage>>)
           /\ inflight' = [inflight EXCEPT !.addMessage = <<>>]
    /\ UNCHANGED <<now, nextId, created>>
    /\ UNCHANGED <<execVars, projectVars, chatVars>>

\* Database.rollback: ROLLBACK undoes everything written on the connection
\* since BEGIN; then transaction() rethrows and addMessage throws.
AddMessageRollback ==
    /\ inflight.addMessage # <<>>
    /\ inflight.addMessage[1].pc = "ROLLBACK"
    /\ SetDb(snapshot[1])
    /\ snapshot' = <<>>
    /\ ret' = Returned("addMessage", inflight.addMessage[1].sessionId, FALSE, <<>>, <<>>)
    /\ inflight' = [inflight EXCEPT !.addMessage = <<>>]
    /\ UNCHANGED <<sessions, now, nextId, created>>
    /\ UNCHANGED <<execVars, projectVars, chatVars>>

\* getSession up to its first await: the cached session, else
\* dal.getChatSessionById awaited.
TxnGetSessionCall ==
    /\ inflight.getSession = <<>>
    /\ \E id \in 1..nextId :
           IF id \in DOMAIN sessions
           THEN /\ ret' = Returned("getSession", id, TRUE, <<sessions[id]>>, <<>>)
                /\ UNCHANGED inflight
           ELSE /\ inflight' = [inflight EXCEPT !.getSession =
                       <<[pc |-> "SESSION", id |-> id, row |-> <<>>, rows |-> <<>>,
                          k |-> 1, out |-> <<>>]>>]
                /\ UNCHANGED ret
    /\ UNCHANGED <<sessions, chat_sessions, messages, code_blocks, now, nextId, created,
                   snapshot>>
    /\ UNCHANGED <<execVars, projectVars, chatVars>>

\* getSession once getChatSessionById has returned the session with the
\* messages out: the session is set in the cache and returned.
Loaded(t, out) ==
    LET session == mapDatabaseSessionToChatSession(t.row[1], out)
    IN  /\ sessions' = mapSet(sessions, t.id, session)
        /\ ret' = Returned("getSession", t.id, TRUE, <<session>>, <<>>)
        /\ inflight' = [inflight EXCEPT !.getSession = <<>>]

\* getChatSessionById: SELECT * FROM chat_sessions WHERE id = ?
GetSessionSelectSession ==
    /\ inflight.getSession # <<>>
    /\ inflight.getSession[1].pc = "SESSION"
    /\ LET t == inflight.getSession[1]
           rows == SelectSeq(chat_sessions, LAMBDA s : s.id = t.id)
       IN  IF rows = <<>>
           THEN /\ ret' = Returned("getSession", t.id, TRUE, <<>>, <<>>)
                /\ inflight' = [inflight EXCEPT !.getSession = <<>>]
           ELSE /\ inflight' = [inflight EXCEPT !.getSession[1] =
                                   [t EXCEPT !.pc = "MESSAGES", !.row = <<rows[1]>>]]
                /\ UNCHANGED ret
    /\ UNCHANGED <<sessions, chat_sessions, messages, code_blocks, now, nextId, created,
                   snapshot>>
    /\ UNCHANGED <<execVars, projectVars, chatVars>>

\* getMessagesBySessionId: SELECT * FROM messages WHERE session_id = ? ORDER BY
\* timestamp ASC.
GetSessionSelectMessages ==
    /\ inflight.getSession # <<>>
    /\ inflight.getSession[1].pc = "MESSAGES"
    /\ LET t == inflight.getSession[1]
           rows == orderByTimestamp(SelectSeq(messages, LAMBDA m : m.session_id = t.id))
       IN  IF rows = <<>>
           THEN Loaded(t, <<>>)
           ELSE /\ inflight' = [inflight EXCEPT !.getSession[1] =
                                   [t EXCEPT !.pc = "BLOCKS", !.rows = rows]]
                /\ UNCHANGED <<sessions, ret>>
    /\ UNCHANGED <<chat_sessions, messages, code_blocks, now, nextId, created, snapshot>>
    /\ UNCHANGED <<execVars, projectVars, chatVars>>

\* getMessagesBySessionId: await this.getCodeBlocksByMessageId(dbMessage.id),
\* for the k-th message row.
GetSessionSelectCodeBlocks ==
    /\ inflight.getSession # <<>>
    /\ inflight.getSession[1].pc = "BLOCKS"
    /\ LET t == inflight.getSession[1]
           out == Append(t.out, mapDatabaseMessageToChatMessage(t.rows[t.k],
                                    getCodeBlocksByMessageId(Db, t.rows[t.k].id)))
       IN  IF t.k = Len(t.rows)
           THEN Loaded(t, out)
           ELSE /\ inflight' = [inflight EXCEPT !.getSession[1] =
                                   [t EXCEPT !.k = t.k + 1, !.out = out]]
                /\ UNCHANGED <<sessions, ret>>
    /\ UNCHANGED <<chat_sessions, messages, code_blocks, now, nextId, created, snapshot>>
    /\ UNCHANGED <<execVars, projectVars, chatVars>>

\* removeSession: its DELETE, then the cache.
TxnRemoveSessionCall ==
    /\ \E id \in 1..nextId : removeSession(id)
    /\ UNCHANGED <<inflight, snapshot>>
    /\ UNCHANGED <<execVars, projectVars, chatVars>>

TxnRemoveFromCacheCall ==
    /\ \E id \in DOMAIN sessions : removeFromCache(id)
    /\ UNCHANGED <<inflight, snapshot>>
    /\ UNCHANGED <<execVars, projectVars, chatVars>>

TxnNext ==
    \/ TxnCreateSessionCall
    \/ TxnAddMessageCall
    \/ AddMessageBegin
    \/ AddMessageInsert
    \/ AddMessageCodeBlock
    \/ AddMessageCommit
    \/ AddMessageRollback
    \/ TxnGetSessionCall
    \/ GetSessionSelectSession
    \/ GetSessionSelectMessages
    \/ GetSessionSelectCodeBlocks
    \/ TxnRemoveSessionCall
    \/ TxnRemoveFromCacheCall

SpecTxn == TxnInit /\ [][TxnNext]_vars

(***************************************************************************)
(* SpecSelect: the project manager answering a setCurrentProject call      *)
(* while other calls create and delete projects.  setCurrentProject runs   *)
(* up to its next await; inflight is [setCurrentProject]: <<the call>>     *)
(* where there is one, with what it awaits (pc) and its local values.      *)
(***************************************************************************)
NoSelection == [setCurrentProject |-> <<>>]

SelectInit ==
    /\ InitExecVars /\ InitSessionVars /\ InitProjectVars /\ InitChatVars
    /\ inflight = NoSelection
    /\ snapshot = <<>>

\* setCurrentProject up to its first await: getProject(projectId) for an id,
\* else the selection is cleared.
SelectCall ==
    /\ inflight.setCurrentProject = <<>>
    /\ \E projectId \in RecentIdInputs :
           IF projectId # NULL
           THEN /\ inflight' = [inflight EXCEPT !.setCurrentProject =
                       <<[pc |-> "getProject", projectId |-> projectId, project |-> <<>>]>>]
                /\ UNCHANGED <<currentProjectId, pret>>
           ELSE /\ currentProjectId' = projectId
                /\ pret' = Responded("setCurrentProject", projectId, 200)
                /\ UNCHANGED inflight
    /\ UNCHANGED <<projects, recentProjects, generated, fs, snapshot>>
    /\ UNCHANGED <<execVars, sessionVars, chatVars>>

\* getProject has answered: no project throws; else validateProjectPath.
SelectGetProject ==
    /\ inflight.setCurrentProject # <<>>
    /\ inflight.setCurrentProject[1].pc = "getProject"
    /\ LET t == inflight.setCurrentProject[1]
           project == getProject(Pm, t.projectId)
       IN  IF getProjectThrows(Pm, t.projectId) \/ project = <<>>
           THEN /\ pret' = Responded("setCurrentProject", t.projectId, 500)
                /\ inflight' = [inflight EXCEPT !.setCurrentProject = <<>>]
           ELSE /\ inflight' = [inflight EXCEPT !.setCurrentProject[1] =
                       [t EXCEPT !.pc = "validateProjectPath", !.project = project]]
                /\ UNCHANGED pret
    /\ UNCHANGED <<projects, recentProjects, currentProjectId, generated, fs, snapshot>>
    /\ UNCHANGED <<execVars, sessionVars, chatVars>>

\* validateProjectPath has answered: a bad path throws; else
\* addToRecentProjects up to its saveConfig.
SelectValidate ==
    /\ inflight.setCurrentProject # <<>>
    /\ inflight.setCurrentProject[1].pc = "validateProjectPath"
    /\ LET t == inflight.setCurrentProject[1]
       IN  IF ~validateProjectPath(t.project[1].path)
           THEN /\ pret' = Responded("setCurrentProject", t.projectId, 500)
                /\ inflight' = [inflight EXCEPT !.setCurrentProject = <<>>]
                /\ UNCHANGED recentProjects
           ELSE /\ recentProjects' = addToRecentProjects(Pm, t.projectId).recentProjects
                /\ inflight' = [inflight EXCEPT !.setCurrentProject[1].pc = "saveConfig"]
                /\ UNCHANGED pret
    /\ UNCHANGED <<projects, currentProjectId, generated, fs, snapshot>>
    /\ UNCHANGED <<execVars, sessionVars, chatVars>>

\* saveConfig has answered: this.currentProjectId = projectId, and the
\* configuration is saved again.
SelectAssign ==
    /\ inflight.setCurrentProject # <<>>
    /\ inflight.setCurrentProject[1].pc = "saveConfig"
    /\ currentProjectId' = inflight.setCurrentProject[1].projectId
    /\ pret' = Responded("setCurrentProject", inflight.setCurrentProject[1].projectId, 200)
    /\ inflight' = [inflight EXCEPT !.setCurrentProject = <<>>]
    /\ UNCHANGED <<projects, recentProjects, generated, fs, snapshot>>
    /\ UNCHANGED <<execVars, sessionVars, chatVars>>

SelectNext ==
    \/ CreateProjectCall
    \/ DeleteProjectMethodCall
    \/ FsChange
    \/ SelectCall
    \/ SelectGetProject
    \/ SelectValidate
    \/ SelectAssign

SpecSelect == SelectInit /\ [][SelectNext]_vars

(***************************************************************************)
(* Claims about the executor.                                              *)
(***************************************************************************)

\* The shell metacharacters as the specification lists them.
ShellMetacharacters ==
    {";", "&", "|", "BACKTICK", "$", "(", ")", "{", "}", "[", "]", "BACKSLASH"}

\* s with the shell metacharacters left out.
Stripped(s) == SelectSeq(s, LAMBDA ch : ch \notin ShellMetacharacters)

\* The first space-delimited token of the stripped command is in the allow-list.
FirstTokenAllowed(command) ==
    LET t == Stripped(command)
    IN  \E a \in allowedCommands :
            /\ Len(a) <= Len(t)
            /\ SubSeq(t, 1, Len(a)) = a
            /\ Len(t) > Len(a) => t[Len(a) + 1] = " "

\* A request that has a command, an argument array, a working directory, a
\* session id and, if it gives a timeout, a positive one.
WellFormed(request) ==
    /\ request.command # <<>>
    /\ request.argsIsArray
    /\ request.workingDirectory # ""
    /\ request.sessionId # ""
    /\ request.timeoutGiven => request.timeout > 0

\* A step adds a call (executeCommand was entered): the call is the last one.
CallAdded == Len(calls') = Len(calls) + 1

\* C1 as stated: a request whose stripped command has a first token outside the
\* allow-list returns success = false with the command-not-allowed error, spawns
\* no child and leaves the process registry as it was.
C1_Original ==
    [][(CallAdded /\ ~FirstTokenAllowed(calls'[Len(calls')].request.command))
           => LET c == calls'[Len(calls')]
              IN  /\ c.returned /\ ~c.success /\ c.error = "COMMAND_NOT_ALLOWED"
                  /\ ~c.spawned
                  /\ activeProcesses' = activeProcesses]_vars

\* C1 amended: such a request returns success = false, spawns no child and
\* leaves the process registry as it was; the error is the command-not-allowed
\* error when the request passes validateRequest and the validation error
\* otherwise.
C1_DisallowedRejected ==
    [][(CallAdded /\ ~FirstTokenAllowed(calls'[Len(calls')].request.command))
           => LET c == calls'[Len(calls')]
              IN  /\ c.returned /\ ~c.success
                  /\ IF WellFormed(c.request)
                     THEN c.error = "COMMAND_NOT_ALLOWED"
                     ELSE c.error \in {"INVALID_COMMAND", "INVALID_ARGS", "INVALID_WORKING_DIR",
                                       "INVALID_SESSION_ID", "INVALID_TIMEOUT"}
                  /\ ~c.spawned
                  /\ activeProcesses' = activeProcesses]_vars

\* C1 witness: a disallowed command was rejected while another call's child was
\* in the registry.
C1_Witness ==
    \E i \in 1..Len(calls) :
        /\ ~FirstTokenAllowed(calls[i].request.command)
        /\ calls[i].error = "COMMAND_NOT_ALLOWED"
        /\ getActiveProcesses # {}

\* C10: the command and the arguments handed to spawn are the request's with
\* every shell metacharacter removed and everything else kept in order, and
\* sanitizing them again changes nothing.
C10_SanitizedSpawn ==
    \A i \in 1..Len(calls) :
        calls[i].spawned =>
            LET c == calls[i]
            IN  /\ c.command = Stripped(c.request.command)
                /\ Len(c.args) = Len(c.request.args)
                /\ \A k \in 1..Len(c.args) : c.args[k] = Stripped(c.request.args[k])
                /\ sanitizeCommand(c.command).value = c.command
                /\ sanitizeArguments(c.args) = c.args

\* C10 witness: a child was spawned for a request whose command held a
\* metacharacter and whose argument held two.
C10_Witness ==
    \E i \in 1..Len(calls) :
        /\ calls[i].spawned
        /\ Len(calls[i].command) < Len(calls[i].request.command)
        /\ Len(calls[i].args) = 1
        /\ Len(calls[i].args[1]) + 2 = Len(calls[i].request.args[1])

\* C4 as stated: when the chunks received from a child exceed the maximum output
\* size, executeCommand returns success = false with the output-too-large error,
\* and at that moment the call's session id is not in getActiveProcesses().
C4_Original ==
    [][\A i \in 1..Len(calls) :
           (calls[i].promise = "pending" /\ calls'[i].outputSize > maxOutputSize)
               => /\ calls'[i].returned /\ ~calls'[i].success
                  /\ calls'[i].error = "OUTPUT_TOO_LARGE"
                  /\ activeProcesses'[calls[i].request.sessionId] = 0]_vars

\* C5 as stated: when the timeout of a call elapses before its child has closed
\* (and the call has not returned yet), the child has been sent the termination
\* signal and executeCommand returns success = false with the timed-out error.
C5_Original ==
    [][\A i \in 1..Len(calls) :
           (calls[i].timer = "armed" /\ calls'[i].timer = "fired"
                /\ calls[i].proc = "running" /\ ~calls[i].returned)
               => /\ calls'[i].killed
                  /\ calls'[i].returned /\ ~calls'[i].success
                  /\ calls'[i].error = "TIMEOUT"]_vars

\* The invalid-request conditions a request meets, each named by the error the
\* specification gives it.
Violations(request) ==
    {code \in {"INVALID_COMMAND", "INVALID_ARGS", "INVALID_WORKING_DIR",
               "INVALID_SESSION_ID", "INVALID_TIMEOUT"} :
        \/ code = "INVALID_COMMAND" /\ request.command = <<>>
        \/ code = "INVALID_ARGS" /\ ~request.argsIsArray
        \/ code = "INVALID_WORKING_DIR" /\ request.workingDirectory = ""
        \/ code = "INVALID_SESSION_ID" /\ request.sessionId = ""
        \/ code = "INVALID_TIMEOUT" /\ request.timeoutGiven /\ request.timeout <= 0}

\* C13: executeCommand rejects, without spawning a child and without touching
\* the registry, a request with a missing command, args that are not an array,
\* a missing working directory, a missing session id or a timeout that is not
\* positive (0 included); the error returned is that of a condition the request
\* meets, so a request meeting one condition gets that condition's own error,
\* which none of the other four conditions gives.
C13_InvalidRequestRejected ==
    [][(CallAdded /\ Violations(calls'[Len(calls')].request) # {})
           => LET c == calls'[Len(calls')]
              IN  /\ c.returned /\ ~c.success /\ ~c.spawned
                  /\ c.error \in Violations(c.request)
                  /\ activeProcesses' = activeProcesses]_vars

\* A request whose only fault is a timeout of 0 was rejected with the timeout
\* error while the child of an earlier request was running.
C13_Witness ==
    \E i \in 1..Len(calls) :
        /\ Violations(calls[i].request) = {"INVALID_TIMEOUT"}
        /\ calls[i].request.timeout = 0
        /\ calls[i].error = "INVALID_TIMEOUT"
        /\ ~calls[i].spawned
        /\ getActiveProcesses # {}

\* C14 as stated: a call reports success = true exactly when its child closed
\* with exit code 0: a successful call's child closed with code 0 and not by a
\* signal, and a call that returns at the close of its child is successful if
\* the code is 0 and failed otherwise, a close by signal (no exit code) among
\* the failures.
C14_Original ==
    \A i \in 1..Len(calls) :
        LET c == calls[i]
        IN  /\ (c.returned /\ c.success)
                => (c.proc = "closed" /\ c.signalCode = "" /\ c.exitCode = 0)
            /\ (c.proc = "closed" /\ c.promise = "resolved")
                => (c.success <=> (c.signalCode = "" /\ c.exitCode = 0))

\* The child registered under a session id is running and has not been sent a
\* signal.
Signallable(sid) == activeProcesses[sid] # 0 /\ ~calls[activeProcesses[sid]].killed

\* C15: killProcess(id) returns true exactly when a child is tracked under id
\* and has not been signalled yet; that child is then sent the signal and id
\* leaves getActiveProcesses().  Otherwise it returns false and changes nothing,
\* so a second killProcess(id) right after a successful one returns false.
C15_KillProcess ==
    [][\A sid \in Sids :
           killProcess(sid)
               => /\ kret' = Killed(sid, Signallable(sid))
                  /\ Signallable(sid)
                         => /\ calls[activeProcesses[sid]].proc = "running"
                            /\ calls'[activeProcesses[sid]].killed
                            /\ activeProcesses'[sid] = 0
                            /\ ~Signallable(sid)'
                  /\ ~Signallable(sid)
                         => /\ calls' = calls
                            /\ activeProcesses' = activeProcesses]_vars

\* killProcess has returned true for a session id while another child was
\* tracked, and that other child still is; and it has returned false for a
\* child that its timeout had signalled already.
C15_Witness ==
    /\ kret.result
    /\ activeProcesses[kret.sessionId] = 0
    /\ getActiveProcesses # {}
    /\ \E i \in 1..Len(calls) :
           calls[i].request.sessionId = kret.sessionId /\ calls[i].killed
               /\ calls[i].proc = "running" /\ calls[i].timer = "armed"

\* C16: after cleanup() no session id is in getActiveProcesses(), and every
\* child that was tracked and not yet signalled has been sent the signal; the
\* other calls are as they were.
C16_Cleanup ==
    [][cleanup
           => /\ getActiveProcesses' = {}
              /\ \A sid \in Sids :
                     Signallable(sid) => calls'[activeProcesses[sid]].killed
              /\ \A i \in 1..Len(calls) :
                     (\A sid \in Sids : activeProcesses[sid] # i) => calls'[i] = calls[i]]_vars

\* cleanup has run with two children tracked, one of them signalled before by
\* its timeout: both are signalled, still running, and tracked no more.
C16_Witness ==
    /\ getActiveProcesses = {}
    /\ \E i, j \in 1..Len(calls) :
           /\ calls[i].proc = "running" /\ calls[i].killed /\ calls[i].timer = "armed"
           /\ calls[j].proc = "running" /\ calls[j].killed /\ calls[j].timer = "fired"
           /\ calls[i].request.sessionId # calls[j].request.sessionId

\* C12 as stated: executeCommand, startNewChatSession and sendMessageToSession
\* never throw or reject: every call that has ended has returned a result, and
\* a call that ended in a failure (an error code is set) returned success =
\* false.
C12_Original ==
    \A i \in 1..Len(calls) :
        /\ ~calls[i].threw
        /\ calls[i].error # "" => (calls[i].returned /\ ~calls[i].success)

\* C27: while a child spawned for a session id is running and has not been
\* signalled, the id is in getActiveProcesses() and its entry is that child,
\* the one killProcess(id) signals; also when two calls use the same id.
C27_Original ==
    \A i \in 1..Len(calls) :
        (calls[i].spawned /\ calls[i].proc = "running" /\ ~calls[i].killed)
            => /\ calls[i].request.sessionId \in getActiveProcesses
               /\ activeProcesses[calls[i].request.sessionId] = i

\* C28: every executeCommand call whose child was spawned eventually returns,
\* provided its timer fires; also a call whose child was signalled by
\* killProcess or cleanup and never emits a close event.
C28_Original ==
    \A i \in 1..MaxCalls :
        (i <= Len(calls) /\ calls[i].spawned) ~> (i <= Len(calls) /\ calls[i].returned)

\* C29: every child the executor spawns, through executeCommand,
\* sendMessageToSession or startNewChatSession, is started with an executable
\* name that is an element of the allow-list.
C29_Original ==
    \A i \in 1..Len(calls) : calls[i].spawned => calls[i].command \in allowedCommands

(***************************************************************************)
(* Claims about the session manager and the store.                         *)
(***************************************************************************)
MessageIds(msgs) == [k \in 1..Len(msgs) |-> msgs[k].id]

InTimestampOrder(msgs) ==
    \A j, k \in 1..Len(msgs) : j < k => msgs[j].timestamp <= msgs[k].timestamp

\* The step is an addMessage call on session id that returned its message.
AddMessageReturned(id) ==
    /\ ret'.op = "addMessage" /\ ret'.ok /\ ret'.id = id
    /\ ret' # ret

\* C2: after addMessage(s, m) returns, getSession(s) has the messages it had
\* before, unchanged and in the same order, followed by m, which appears once,
\* and its updatedAt is strictly greater than before the call.
C2_Original ==
    [][\A id \in 1..nextId :
           AddMessageReturned(id) =>
               LET before == getSession(id).session
                   after == (getSession(id).session)'
                   m == ret'.message[1]
               IN  /\ before # <<>> /\ after # <<>>
                   /\ after[1].messages = Append(before[1].messages, m)
                   /\ \A k \in 1..Len(before[1].messages) : before[1].messages[k].id # m.id
                   /\ after[1].updatedAt > before[1].updatedAt]_vars

\* C3: after addMessage(s, m) returns, the cached session and the session the
\* store holds have the same sequence of message ids, and the store's
\* updatedAt has been bumped by the append like the cached one (to the time of
\* the append, at the store's resolution of a second).  Stated for appends
\* that leave the cached messages in timestamp order, the order the store
\* returns them in.
C3_Original ==
    [][\A id \in 1..nextId :
           (AddMessageReturned(id) /\ InTimestampOrder(sessions'[id].messages)) =>
               LET cached == sessions'[id]
                   stored == getChatSessionById(Db, id)'
               IN  /\ stored # <<>>
                   /\ MessageIds(stored[1].messages) = MessageIds(cached.messages)
                   /\ cached.updatedAt = now
                   /\ stored[1].updatedAt = CURRENT_TIMESTAMP]_vars

\* The store holds exactly the messages session id was created with.
OnlyInitialMessages(id) ==
    /\ id \in DOMAIN created
    /\ id \in Ids(chat_sessions)
    /\ {messages[k].id : k \in {j \in 1..Len(messages) : messages[j].session_id = id}}
           = {created[id][k].id : k \in 1..Len(created[id])}

\* C6: getSession of the id createSession returned gives a session whose
\* messages are the initial messages, in the same order, whether it is served
\* from the cache or reloaded from the store after removeFromCache.
C6_Original ==
    (ret.op = "getSession" /\ OnlyInitialMessages(ret.id))
        => /\ ret.sessions # <<>>
           /\ ret.sessions[1].messages = created[ret.id]

NoOrphanRows ==
    /\ \A k \in 1..Len(messages) : messages[k].session_id \in Ids(chat_sessions)
    /\ \A k \in 1..Len(code_blocks) : code_blocks[k].message_id \in Ids(messages)

DeleteLeavesNothing ==
    \A id \in Ids(chat_sessions) \ Ids(chat_sessions') :
        LET had == {messages[k].id : k \in {j \in 1..Len(messages) :
                                               messages[j].session_id = id}}
        IN  /\ \A k \in 1..Len(messages') : messages'[k].session_id # id
            /\ \A k \in 1..Len(code_blocks') : code_blocks'[k].message_id \notin had

\* C7: deleting a session leaves no message of that session and no code block
\* of any of its messages in the store, and in every reachable state of the
\* store every message row belongs to a session row and every code block row
\* to a message row.
C7_CascadeDelete == []NoOrphanRows /\ [][DeleteLeavesNothing]_vars

\* A session that was created with messages carrying code blocks has been
\* removed while another session still has rows.
C7_Witness ==
    /\ ret.op = "removeSession"
    /\ ret.id \in DOMAIN created
    /\ ret.id \notin Ids(chat_sessions)
    /\ \E k \in 1..Len(created[ret.id]) : created[ret.id][k].codeBlocks # <<>>
    /\ messages # <<>>

\* C8: createMessage and updateMessage with code blocks are all-or-nothing:
\* a call that fails leaves the tables as they were before the call.
C8_Original ==
    [][(ret'.op \in {"createMessage", "updateMessage"} /\ ~ret'.ok /\ ret' # ret)
           => UNCHANGED <<chat_sessions, messages, code_blocks>>]_vars

\* C21 as stated: createSession is one logical operation: when it returned, the
\* session row and every initial message are in the store and the cache holds
\* the full session; when it threw, the store has no row of that session and
\* none of its messages, and the cache has no entry for it.
C21_Original ==
    ret.op = "createSession"
        => IF ret.ok
           THEN /\ ret.id \in Ids(chat_sessions)
                /\ ret.id \in DOMAIN sessions
                /\ sessions[ret.id] = ret.sessions[1]
                /\ \A k \in 1..Len(ret.sessions[1].messages) :
                       \E j \in 1..Len(messages) :
                           /\ messages[j].id = ret.sessions[1].messages[k].id
                           /\ messages[j].session_id = ret.id
           ELSE /\ ret.id \notin Ids(chat_sessions)
                /\ \A j \in 1..Len(messages) : messages[j].session_id # ret.id
                /\ ret.id \notin DOMAIN sessions

\* C22 as stated: the updatedAt a getSession or listSessions call shows for a
\* session never decreases from one call to a later one (so no step lowers
\* the updatedAt getSession would return for a session that exists before and
\* after it), and every addMessage and updateSession that returns sets it to
\* the time of the call.
C22_Original ==
    [][\A id \in 1..nextId :
           LET before == getSession(id).session
               after == (getSession(id).session)'
           IN  /\ (before # <<>> /\ after # <<>>)
                      => after[1].updatedAt >= before[1].updatedAt
               /\ (ret'.op \in {"addMessage", "updateSession"} /\ ret'.ok
                       /\ ret'.id = id /\ ret' # ret)
                      => (after # <<>> /\ after[1].updatedAt = now)]_vars

\* Two messages that are in both lists are in the same relative order in both.
SameRelativeOrder(msgs1, msgs2) ==
    \A i, j \in 1..Len(msgs1) :
        \A k, l \in 1..Len(msgs2) :
            (i < j /\ msgs1[i].id = msgs2[k].id /\ msgs1[j].id = msgs2[l].id) => k < l

\* C23 as stated: the messages getSession returns are in ascending timestamp
\* order, and no step changes the relative order in which getSession returns
\* two messages of a session, be it answered from the cache or from the store.
C23_Original ==
    /\ [](ret.op = "getSession" /\ ret.sessions # <<>>
              => InTimestampOrder(ret.sessions[1].messages))
    /\ [][\A id \in 1..nextId :
              LET before == getSession(id).session
                  after == (getSession(id).session)'
              IN  (before # <<>> /\ after # <<>>)
                      => SameRelativeOrder(before[1].messages, after[1].messages)]_vars

\* The messages of the cached sessions.
CachedMessageIds ==
    UNION {{sessions[id].messages[k].id : k \in 1..Len(sessions[id].messages)} :
               id \in DOMAIN sessions}

\* C24: a message and its code blocks become visible atomically: every message
\* getSession returns has the code blocks it was created with (its row's
\* metadata), no message that a ROLLBACK removes from the store is in a cached
\* session, and while a createMessage transaction is open no statement of
\* another request takes part in it: the table chat_sessions, which
\* createMessage does not write, is changed neither inside the transaction nor
\* by its end.
C24_Original ==
    /\ [](ret.op = "getSession" /\ ret.sessions # <<>>
             => \A k \in 1..Len(ret.sessions[1].messages) :
                    \A j \in 1..Len(messages) :
                        messages[j].id = ret.sessions[1].messages[k].id
                            => ret.sessions[1].messages[k].codeBlocks = messages[j].metadata)
    /\ [][snapshot # <<>> /\ snapshot' = <<>>
             => (Ids(messages) \ Ids(messages')) \cap CachedMessageIds' = {}]_vars
    /\ [][snapshot # <<>> => chat_sessions' = chat_sessions]_vars

\* C30: once removeSession(id) has returned, getSession(id) returns null until a
\* session with that id is created again, also when an addMessage on id was in
\* flight while removeSession ran.  Ids are never handed out twice, so:
\* getSession(id) answers null when removeSession(id) returns, and goes on
\* answering null after every step of the requests that were in flight.
C30_Original ==
    [][\A id \in 1..nextId :
           /\ (ret'.op = "removeSession" /\ ret'.id = id /\ ret' # ret)
                  => (getSession(id).session)' = <<>>
           /\ (ret.op = "removeSession" /\ ret.id = id /\ getSession(id).session = <<>>)
                  => (getSession(id).session)' = <<>>]_vars

\* C17: getSession(id) returns the cached session when id is cached, whatever
\* the store holds, and leaves the cache alone; otherwise it returns the
\* session the store holds under id and caches it; when the store has none it
\* returns null without an error and leaves the cache unchanged.
C17_ReadThrough ==
    [][\A id \in 1..MaxIds :
           (ret'.op = "getSession" /\ ret'.id = id /\ GetSession(id))
               => /\ ret'.ok
                  /\ id \in DOMAIN sessions
                         => /\ ret'.sessions = <<sessions[id]>>
                            /\ sessions' = sessions
                  /\ (id \notin DOMAIN sessions /\ id \in Ids(chat_sessions))
                         => /\ ret'.sessions = getChatSessionById(Db, id)
                            /\ ret'.sessions[1].id = id
                            /\ DOMAIN sessions' = DOMAIN sessions \cup {id}
                            /\ sessions'[id] = ret'.sessions[1]
                            /\ \A k \in DOMAIN sessions : sessions'[k] = sessions[k]
                  /\ (id \notin DOMAIN sessions /\ id \notin Ids(chat_sessions))
                         => /\ ret'.sessions = <<>>
                            /\ sessions' = sessions]_vars

\* getSession has returned a cached session that differs from what the store
\* holds under the same id.
C17_Witness ==
    /\ ret.op = "getSession"
    /\ ret.id \in DOMAIN sessions
    /\ ret.sessions = <<sessions[ret.id]>>
    /\ getChatSessionById(Db, ret.id) # <<>>
    /\ getChatSessionById(Db, ret.id) # ret.sessions

\* C18: updateSession on an id that is neither cached nor stored fails with the
\* not-found error and changes neither the cache nor the store; on a known id
\* it succeeds, the session keeps its id whatever id the updates carry, and
\* getSession(id) afterwards returns the session with the updated fields.
C18_UpdateSession ==
    [][\A id \in 1..MaxIds, updates \in SessionUpdates :
           (ret'.op = "updateSession" /\ ret'.id = id /\ updateSession(id, updates))
               => IF id \notin DOMAIN sessions /\ id \notin Ids(chat_sessions)
                  THEN /\ ret' = Returned("updateSession", id, FALSE, <<>>, <<>>)
                       /\ sessions' = sessions
                       /\ Db' = Db
                  ELSE /\ ret'.ok
                       /\ getSession(id)'.session =
                              <<[sessions'[id] EXCEPT !.id = id, !.name = updates.name[1],
                                                      !.updatedAt = now]>>
                       /\ Ids(chat_sessions') = Ids(chat_sessions)
                       /\ \A k \in 1..Len(chat_sessions') :
                              chat_sessions'[k].id = id
                                  => chat_sessions'[k].name = updates.name[1]]_vars

\* updateSession has renamed a session while another session was cached (the
\* updates may have carried that session's id): each is cached under its own
\* id.
C18_Witness ==
    /\ ret.op = "updateSession"
    /\ ret.ok
    /\ ret.id \in DOMAIN sessions
    /\ sessions[ret.id].name \in Names
    /\ \E other \in DOMAIN sessions : other # ret.id /\ sessions[other].id = other

(***************************************************************************)
(* Claims about the project manager.                                       *)
(***************************************************************************)
\* The step is a POST /projects/current request for projectId.
SetCurrentRequested(projectId) ==
    /\ pret'.op = "POST /current" /\ pret'.id = projectId
    /\ pret' # pret

\* projectId names no project, or a project whose path is not a readable
\* directory.
Unselectable(projectId) ==
    \/ projectId \notin DOMAIN projects
    \/ fs[projects[projectId].path] # "dir"

Fronted(id) ==
    LET list == <<id>> \o SelectSeq(recentProjects, LAMBDA pid : pid # id)
    IN  SubSeq(list, 1, IF Len(list) > maxRecentProjects THEN maxRecentProjects ELSE Len(list))

RecencyWellFormed ==
    /\ \A i, j \in 1..Len(recentProjects) : i # j => recentProjects[i] # recentProjects[j]
    /\ Len(recentProjects) <= maxRecentProjects
    /\ \A i \in 1..Len(recentProjects) : recentProjects[i] \in DOMAIN projects

\* What one call does to the recency list: a project created or selected (by
\* setCurrentProject or openProjectDirectory) goes to the front, the others
\* keeping their order; a deleted project leaves the list, the others keeping
\* their order; a call that failed, or that selected null, changes nothing.
RecencyStep ==
    IF pret'.status = 200 /\ pret'.id # NULL
          /\ pret'.op \in {"createProject", "setCurrentProject", "openProjectDirectory"}
    THEN recentProjects' = Fronted(pret'.id)
    ELSE IF pret'.op = "deleteProject"
    THEN recentProjects' = SelectSeq(recentProjects, LAMBDA pid : pid # pret'.id)
    ELSE recentProjects' = recentProjects

\* C19: after any sequence of createProject, setCurrentProject,
\* openProjectDirectory and deleteProject from an empty recency list, the list
\* has no id twice, at most maxRecentProjects entries, only projects that
\* exist, and is most-recent-first: each created or selected project goes to
\* the front and stays ahead of the earlier ones until it is deleted.
C19_RecencyList == []RecencyWellFormed /\ [][RecencyStep]_vars

\* A project that was in the list was selected again with more projects than
\* the list holds: it is first, the list is full and one project is left out.
C19_Witness ==
    /\ pret.op = "setCurrentProject" /\ pret.status = 200
    /\ Len(recentProjects) = maxRecentProjects
    /\ recentProjects[1] = pret.id
    /\ pret.id # ToString(generated)
    /\ \E id \in DOMAIN projects : \A i \in 1..Len(recentProjects) : recentProjects[i] # id

\* The projects whose record has a path.
ProjectsAt(path) == {id \in DOMAIN projects : projects[id].path = path}

\* A step in which openProjectDirectory returned a project.
Opened ==
    /\ pret'.op = "openProjectDirectory" /\ pret'.status = 200
    /\ <<projects, recentProjects, currentProjectId, pret>>'
           # <<projects, recentProjects, currentProjectId, pret>>

\* C20: openProjectDirectory(path), when a project record has the resolved
\* path already, returns such a record, creates none, makes it the current
\* project and moves it to the front of the recency list; the record it
\* returns is new only when no record had the resolved path.
C20_OpenReuses ==
    [][Opened
           => LET id == pret'.id
                  path == projects'[id].path
              IN  IF ProjectsAt(path) # {}
                  THEN /\ id \in ProjectsAt(path)
                       /\ projects' = projects
                       /\ generated' = generated
                       /\ currentProjectId' = id
                       /\ recentProjects' = Fronted(id)
                  ELSE /\ id \notin DOMAIN projects
                       /\ DOMAIN projects' = DOMAIN projects \cup {id}
                       /\ \A other \in DOMAIN projects : projects'[other] = projects[other]]_vars

\* openProjectDirectory has returned a project that existed, not the newest
\* one, with other projects in the recency list: it is current and first.
C20_Witness ==
    /\ pret.op = "openProjectDirectory" /\ pret.status = 200
    /\ pret.id \in DOMAIN projects
    /\ pret.id # ToString(generated)
    /\ currentProjectId = pret.id
    /\ Len(recentProjects) > 1
    /\ recentProjects[1] = pret.id
    /\ ProjectsAt(projects[pret.id].path) = {pret.id}

\* C25: a request that names an absent project, to select it as the current
\* project or to delete it, is answered with status 404.
C25_Original ==
    [][\A id \in ProjectIdInputs \ {NULL, ""} :
           (/\ pret' # pret
            /\ pret'.op \in {"POST /current", "DELETE /:id"}
            /\ pret'.id = id
            /\ id \notin DOMAIN projects)
               => pret'.status = 404]_vars

\* C26: in every reachable state the current-project id is null or the id of
\* an existing project record, also while a setCurrentProject call and a
\* deleteProject call for the same project interleave.
C26_Original == currentProjectId = NULL \/ currentProjectId \in DOMAIN projects

(***************************************************************************)
(* Claims about code block extraction.                                     *)
(***************************************************************************)
\* The code blocks the pieces of a text hold, in source order.
RECURSIVE BlocksOf(_)
BlocksOf(pieces) ==
    IF pieces = <<>> THEN <<>>
    ELSE IF Head(pieces).kind = "block"
    THEN <<[language |-> IF Head(pieces).tag = <<>> THEN <<"t", "e", "x", "t">>
                         ELSE Head(pieces).tag,
            content |-> trim(Head(pieces).body)]>> \o BlocksOf(Tail(pieces))
    ELSE BlocksOf(Tail(pieces))

HasFence(s) == \E i \in 1..Len(s) : fenceAt(s, i)

\* C11: for a text with N well-formed fenced code blocks, extraction yields
\* exactly N fragments in source order, each with its tagged language ("text"
\* when untagged) and its trimmed content, and the display content of the
\* assistant-message variant contains none of the fences.
C11_Original ==
    extraction.op # "none"
        => /\ extraction.codeBlocks = BlocksOf(doc)
           /\ extraction.op = "extractCodeBlocksAndCleanContent"
                  => ~HasFence(extraction.content)

====
